---- MODULE Spec2Model ----
(***************************************************************************)
(* Locky: multi-tenant OAuth2/OIDC identity platform.                      *)
(*                                                                         *)
(* The model follows the Go services (auth/oauth, auth/tokens,             *)
(* auth/sessions) and the GORM stores (auth/store).  Every storage call is *)
(* one atomic step; a service method that makes several storage calls is a *)
(* sequence of steps of one request (a member of Procs), so that requests  *)
(* interleave between storage calls as goroutines do.                      *)
(*                                                                         *)
(* Seven specifications share the state:                                   *)
(*   SpecSession   the session service, its store and the sweeper          *)
(*   SpecRefresh   refresh-token issue / rotate / revoke / introspect      *)
(*   SpecCode      authorize, login, the authorization_code exchange and   *)
(*                 the sweeper                                             *)
(*   SpecStatus    the admin status updates against the operations that    *)
(*                 create sessions, codes and tokens                       *)
(*   SpecKeys      signing keys: generate, mark inactive / retired, sign   *)
(*                 and verify                                              *)
(*   SpecPkce      authorize and the code exchange over the PKCE           *)
(*                 parameters and redirect URIs of a request               *)
(*   SpecGrant     the refresh_token and client_credentials grants over    *)
(*                 the client, scope and secret of a request               *)
(***************************************************************************)
EXTENDS Integers, FiniteSets, Sequences, TLC

\* ------------------------------------------------------------------ bounds
MaxTime == 1
MaxCalls == 3
MaxValidates == 2
MaxSessions == 1
MaxCodes == 1
MaxExchanges == 2
MaxTokens == 3
MaxRoots == 1
SessionTTL == 1
CodeTTL == 0
RefreshTTL == 2
MaxKeyTime == 2
MaxKeys == 3
MaxJwts == 1

\* CleanupExpired hard-codes the session age (30 days), in clock ticks here;
\* the session lifetime is what sessions.NewService is given (SessionTTL)
SweepSessionAge == 2

\* KeyManager.GenerateKey: not_after = now + 90 days, in clock ticks here
KeyLifetime == 2

\* Config.AccessTokenTTL (15 minutes), in clock ticks here
AccessTTL == 2

\* a nil *time.Time
Nil == -1

\* an absent hash: a nil *string (RotatedFrom of a token that was not
\* rotated from another) or the empty string (no PKCE challenge)
NoHash == <<>>

\* ------------------------------------------------------------- universes
Procs == {"p1", "p2"}
Tenants == {"tA", "tB"}
Users == {"u1", "u2"}
Clients == {"web"}
Scopes == {"openid"}

\* users.tenant_id
UserTenant(u) == IF u = "u1" THEN "tA" ELSE "tB"
\* users.email (unique per tenant)
UserEmail(u) == IF u = "u1" THEN "a@x" ELSE "b@x"
Emails == {"a@x", "b@x"}

VARIABLES
    now,            \* the wall clock (time.Now / core.Clock)
    tenantStatus,   \* tenants.status
    userStatus,     \* users.status
    signingKeys,    \* table signing_keys (a set of rows)
    sessions,       \* table sessions: id -> row
    oauthCodes,     \* table oauth_codes: code_hash -> row
    refreshTokens,  \* table refresh_tokens: token_hash -> row
    nextSess,       \* uuid.New() for sessions
    nextCode,       \* uuid.New() for authorization codes
    nextTok,        \* uuid.New() for refresh tokens
    pc,             \* per request: where it stands
    loc,            \* per request: arguments and locals
    res,            \* per request: what the finished call returned
    calls,          \* number of requests started
    \* history (not program state)
    sessOwner,      \* session id -> tenant it was created for
    sessRevoked,    \* <<tenant, id>> of sessions whose Revoke has completed
    codeOwner,      \* code -> tenant it was issued for
    consumeOK,      \* code -> number of successful GetAndConsume returns
    issued,         \* credentials issued, with the statuses at that moment
    revokeLog,      \* effective refresh-token revocations: caller vs owner
    rtParent,       \* refresh token -> token it was rotated from
    replayed,       \* refresh tokens whose replay was detected
    disclosed,      \* Introspect answers that disclosed a row: caller vs owner
    jwts,           \* the signed JWTs handed out so far
    issueLog,       \* the last IssueAccessToken call: key usable, the result
    verifyLog,      \* the last accepting Verify call, the key as it was then
    accessLog,      \* the last access token of a refresh_token or
                    \* client_credentials grant: the claims signed
    authLog,        \* the last Authorize request and its answer
    exchLog,        \* the code exchanges that issued tokens
    tenantDomains,  \* table tenant_domains (a set of rows)
    reqHost,        \* the host the resolver is asked about: scheme, body,
                    \* port
    httpLog,        \* the last answer of the revocation or introspection
                    \* endpoint, with the request and the row it was about
    resolveLog,     \* the last ResolveTenant call: the row the domain
                    \* lookup found, the answer
    rbacTuples,     \* table rbac_tuples (a set of rows)
    enforcer,       \* the policy loaded in the casbin enforcer of the
                    \* rbac service
    enfCalls        \* per Enforce call: where it stands, its request, the
                    \* rows it read, its decision

vars == <<now, tenantStatus, userStatus, signingKeys, sessions, oauthCodes,
          refreshTokens,
          nextSess, nextCode, nextTok, pc, loc, res, calls,
          sessOwner, sessRevoked, codeOwner, consumeOK, issued, revokeLog,
          rtParent, replayed, disclosed, jwts, issueLog, verifyLog,
          accessLog, authLog, exchLog, tenantDomains, reqHost, resolveLog,
          httpLog, rbacTuples, enforcer, enfCalls>>

sessVars == <<sessions, nextSess, sessOwner, sessRevoked>>
codeVars == <<oauthCodes, nextCode, codeOwner, consumeOK>>
tokVars == <<refreshTokens, nextTok, revokeLog, rtParent, replayed,
            disclosed>>
adminVars == <<tenantStatus, userStatus, signingKeys>>
keyVars == <<jwts, issueLog, verifyLog>>
logVars == <<accessLog, authLog, exchLog>>
domVars == <<tenantDomains, reqHost, resolveLog>>
rbacVars == <<rbacTuples, enforcer, enfCalls>>

\* ---------------------------------------------------------------- helpers
\* crypto.HashString: SHA-256 then base64; injective on the values used, and
\* never equal to its argument
HashString(s) == <<"sha256", s>>

NoLoc == [op |-> "none", tenant |-> "tA", arg |-> Nil, verifier |-> "",
          redirect |-> "", client |-> "", scope |-> "", snap |-> {},
          stamp |-> Nil, late |-> FALSE, chain |-> FALSE,
          didRevoke |-> FALSE, didCreate |-> FALSE]

\* casbin.NewEnforcer(m): no policy rule, no grouping rule
NoPolicy == [p |-> {}, g |-> {}]

\* no Enforce call
NoCall == [pc |-> "idle", tenant |-> "", sub |-> "", rows |-> {},
           allowed |-> FALSE, expected |-> FALSE]

Ok(v) == [err |-> "", val |-> v]
Err(e) == [err |-> e, val |-> Nil]

Idle(p) == pc[p] \in {"idle", "done"}

\* the request p finished a call of operation op
Finished(p, op) == pc[p] = "done" /\ loc[p].op = op

\* the kid of the key CreateTenant generates (AdminHandlers.CreateTenant
\* calls KeyManager.GenerateKey)
FirstKid(t) == IF t = "tA" THEN 1 ELSE 2

NoHost == [scheme |-> <<>>, body |-> <<>>, port |-> <<>>]

\* everything but the host the resolver is asked about
InitStore ==
    /\ now = 0
    /\ tenantStatus = [t \in Tenants |-> "active"]
    /\ userStatus = [u \in Users |-> "active"]
    /\ signingKeys = {[kid |-> FirstKid(t), tenant |-> t, status |-> "active",
                       createdAt |-> 0, notBefore |-> 0,
                       notAfter |-> KeyLifetime] : t \in Tenants}
    /\ sessions = <<>>
    /\ oauthCodes = <<>>
    /\ refreshTokens = <<>>
    /\ nextSess = 1
    /\ nextCode = 1
    /\ nextTok = 1
    /\ pc = [p \in Procs |-> "idle"]
    /\ loc = [p \in Procs |-> NoLoc]
    /\ res = [p \in Procs |-> Ok(Nil)]
    /\ calls = 0
    /\ sessOwner = <<>>
    /\ sessRevoked = {}
    /\ codeOwner = <<>>
    /\ consumeOK = <<>>
    /\ issued = {}
    /\ revokeLog = {}
    /\ rtParent = <<>>
    /\ replayed = {}
    /\ disclosed = {}
    /\ jwts = {}
    /\ issueLog = {}
    /\ verifyLog = {}
    /\ accessLog = {}
    /\ authLog = {}
    /\ exchLog = {}
    /\ tenantDomains = {}
    /\ resolveLog = {}
    /\ httpLog = {}
    /\ rbacTuples = {}
    /\ enforcer = NoPolicy
    /\ enfCalls = [p \in Procs |-> NoCall]

Init == InitStore /\ reqHost = NoHost

\* the clock advances, up to limit
Advance(limit) ==
    /\ now < limit
    /\ now' = now + 1
    /\ UNCHANGED <<adminVars, sessVars, codeVars, tokVars, pc, loc, res, calls,
                   keyVars, logVars, domVars, rbacVars, httpLog,
                   issued>>

Tick == Advance(MaxTime)

\* f with key k set to v (insert or overwrite)
Put(f, k, v) == [x \in DOMAIN f \cup {k} |-> IF x = k THEN v ELSE f[x]]
\* f without the keys in S
Drop(f, S) == [x \in DOMAIN f \ S |-> f[x]]
\* the row of a one-row result
Row(S) == CHOOSE r \in S : TRUE

\* ================================================================ sessions

\* a lookup by id alone
SessGetByIDAnyTenant(t, id) ==
    {sessions[i] : i \in {j \in DOMAIN sessions : j = id}}

\* sessionStore.GetByID: First(tenant_id = ? AND id = ?)
\* (the set of matching rows: empty is gorm.ErrRecordNotFound)
SessGetByID(t, id) ==
    {sessions[i] : i \in {j \in DOMAIN sessions :
                             j = id /\ sessions[j].tenant = t}}

\* a stale whole-row write (Save) instead of the one-column update
SessUpdateWholeRow(tbl, s) ==
    IF s.id \in DOMAIN tbl THEN [tbl EXCEPT ![s.id] = s] ELSE tbl

\* sessionStore.Update: UPDATE sessions SET last_seen_at WHERE id = ?
SessUpdate(tbl, s) ==
    IF s.id \in DOMAIN tbl
    THEN [tbl EXCEPT ![s.id].lastSeenAt = s.lastSeenAt] ELSE tbl

\* sessionStore.Revoke: UPDATE sessions SET revoked_at = now
\*                      WHERE tenant_id = ? AND id = ?
SessStoreRevoke(tbl, t, id) ==
    IF id \in DOMAIN tbl /\ tbl[id].tenant = t
    THEN [tbl EXCEPT ![id].revokedAt = now] ELSE tbl

\* sessions.Service.Create
SessCreate(t, u, c) ==
    /\ nextSess <= MaxSessions
    /\ sessions' = Put(sessions, nextSess,
                       [id |-> nextSess, tenant |-> t, user |-> u,
                        client |-> c, createdAt |-> now, lastSeenAt |-> now,
                        revokedAt |-> Nil])
    /\ nextSess' = nextSess + 1
    /\ sessOwner' = Put(sessOwner, nextSess, t)
    /\ issued' = issued \cup
           {[kind |-> "session", tenant |-> t, user |-> u, from |-> "create",
             tstatus |-> tenantStatus[t], ustatus |-> userStatus[u]]}
    /\ UNCHANGED <<now, rbacVars, domVars, httpLog, keyVars, logVars,
                   adminVars, codeVars, tokVars, pc, loc, res, calls,
                   sessRevoked>>

\* sessions.Service.Validate, entry
ValStart(p, t, id) ==
    /\ Idle(p)
    /\ calls < MaxValidates
    /\ calls' = calls + 1
    /\ pc' = [pc EXCEPT ![p] = "val_get"]
    /\ loc' = [loc EXCEPT ![p] = [NoLoc EXCEPT !.op = "validate", !.tenant = t,
                                  !.arg = id,
                                  !.late = (<<t, id>> \in sessRevoked)]]
    /\ UNCHANGED <<now, rbacVars, domVars, httpLog, keyVars, logVars,
                   adminVars, sessVars, codeVars, tokVars, res, issued>>

\* sessions.Service.Validate: GetByID, the revoked and expiry checks, and the
\* clock read for LastSeenAt
ValGet(p) ==
    /\ pc[p] = "val_get"
    /\ LET found == SessGetByID(loc[p].tenant, loc[p].arg)
           s == Row(found) IN
       IF found = {}
       THEN /\ pc' = [pc EXCEPT ![p] = "done"]
            /\ res' = [res EXCEPT ![p] = Err("record not found")]
            /\ loc' = loc
       ELSE IF s.revokedAt # Nil
       THEN /\ pc' = [pc EXCEPT ![p] = "done"]
            /\ res' = [res EXCEPT ![p] = Err("session revoked")]
            /\ loc' = loc
       ELSE IF now > s.createdAt + SessionTTL
       THEN /\ pc' = [pc EXCEPT ![p] = "done"]
            /\ res' = [res EXCEPT ![p] = Err("session expired")]
            /\ loc' = loc
       ELSE /\ pc' = [pc EXCEPT ![p] = "val_update"]
            /\ loc' = [loc EXCEPT ![p].snap = {[s EXCEPT !.lastSeenAt = now]}]
            /\ res' = res
    /\ UNCHANGED <<now, rbacVars, domVars, httpLog, keyVars, logVars,
                   adminVars, sessVars, codeVars, tokVars, calls, issued>>

\* sessions.Service.Validate: the last_seen_at write; its failure is ignored
ValUpdate(p) ==
    /\ pc[p] = "val_update"
    /\ \E ok \in BOOLEAN :
         sessions' = IF ok THEN SessUpdate(sessions, Row(loc[p].snap))
                     ELSE sessions
    /\ pc' = [pc EXCEPT ![p] = "done"]
    /\ res' = [res EXCEPT ![p] = Ok(Row(loc[p].snap).id)]
    /\ loc' = [loc EXCEPT ![p].snap = {}]
    /\ UNCHANGED <<now, rbacVars, domVars, httpLog, keyVars, logVars,
                   adminVars, nextSess, sessOwner, sessRevoked, codeVars,
                   tokVars, calls, issued>>

\* sessions.Service.Revoke
SessRevoke(t, id) ==
    /\ sessions' = SessStoreRevoke(sessions, t, id)
    /\ sessRevoked' = IF id \in DOMAIN sessions /\ sessions[id].tenant = t
                      THEN sessRevoked \cup {<<t, id>>} ELSE sessRevoked
    /\ UNCHANGED <<now, rbacVars, domVars, httpLog, keyVars, logVars,
                   adminVars, nextSess, sessOwner, codeVars, tokVars, pc,
                   loc, res, calls, issued>>

\* ================================================================= sweeper

SweepCodes(tbl, before) ==
    Drop(tbl, {h \in DOMAIN tbl :
                 tbl[h].expiresAt < before \/ tbl[h].usedAt # Nil})

SweepTokens(tbl, before) ==
    Drop(tbl, {h \in DOMAIN tbl :
                 tbl[h].expiresAt < before \/ tbl[h].revokedAt # Nil})

SweepSessions(tbl, before) ==
    Drop(tbl, {id \in DOMAIN tbl :
                 tbl[id].revokedAt # Nil
                 \/ tbl[id].createdAt < before - SweepSessionAge})

\* GormStore.CleanupExpired(before), called by the sweeper with the current
\* time
CleanupExpired ==
    /\ oauthCodes' = SweepCodes(oauthCodes, now)
    /\ refreshTokens' = SweepTokens(refreshTokens, now)
    /\ sessions' = SweepSessions(sessions, now)
    /\ <<oauthCodes', refreshTokens', sessions'>>
         # <<oauthCodes, refreshTokens, sessions>>
    /\ UNCHANGED <<now, rbacVars, domVars, httpLog, keyVars, logVars,
                   adminVars, nextSess, sessOwner, sessRevoked, nextCode,
                   codeOwner, consumeOK, nextTok, revokeLog, rtParent,
                   replayed, disclosed,
                   pc, loc, res, calls, issued>>

\* ============================================================ access tokens

\* a GetActive without the status condition
GetActiveAnyStatus(t) ==
    {k \in signingKeys : /\ k.tenant = t
                         /\ k.notBefore <= now /\ k.notAfter > now}

\* signingKeyStore.GetActive: tenant_id = ? AND status = 'active' AND
\* not_before <= now AND not_after > now (the newest first)
GetActive(t) ==
    {k \in signingKeys : /\ k.tenant = t /\ k.status = "active"
                         /\ k.notBefore <= now /\ k.notAfter > now}

\* JWTManager.Sign, first step: "get active key" fails without an active key
CanSign(t) == GetActive(t) # {}

\* tokens.Service.IssueAccessToken signs through the JWTSigner interface
\* ("implemented by *crypto.JWTManager and mocks"): without an active key the
\* call fails; with one, it succeeds or fails with the signer that is wired
\* in (JWTManager.Sign itself fails at SignedString, see IssueAccessToken)
SignOutcomes(t) == IF CanSign(t) THEN {TRUE, FALSE} ELSE {FALSE}

\* what the history records of an issued credential
Event(kind, t, u, from) ==
    [kind |-> kind, tenant |-> t, user |-> u, from |-> from,
     tstatus |-> tenantStatus[t],
     ustatus |-> IF u \in Users THEN userStatus[u] ELSE "none"]

\* =========================================================== refresh tokens

\* refreshTokenStore.GetByHash: First(token_hash = ? AND tenant_id = ?)
RtGetByHash(t, h) ==
    {refreshTokens[i] : i \in {j \in DOMAIN refreshTokens :
                                  j = h /\ refreshTokens[j].tenant = t}}

\* refreshTokenStore.Revoke: UPDATE refresh_tokens SET revoked_at = now
\*                           WHERE token_hash = ?   (tenantID is not used)
RtStoreRevoke(tbl, t, h) ==
    IF h \in DOMAIN tbl THEN [tbl EXCEPT ![h].revokedAt = now] ELSE tbl

\* the rows the Revoke call newly revokes, as <<caller tenant, owner tenant>>
RtRevokeEffect(t, h) ==
    IF h \in DOMAIN refreshTokens /\ refreshTokens[h].revokedAt = Nil
    THEN {[caller |-> t, owner |-> refreshTokens[h].tenant]} ELSE {}

\* a refresh token that does not record what it was rotated from
NewRefreshTokenUnlinked(tok, t, c, u, sc, from) ==
    [hash |-> HashString(tok), tenant |-> t, client |-> c, user |-> u,
     scope |-> sc, createdAt |-> now, expiresAt |-> now + RefreshTTL,
     revokedAt |-> Nil, rotatedFrom |-> NoHash]

\* a core.RefreshToken as IssueRefreshToken / RotateRefreshToken build it
NewRefreshToken(tok, t, c, u, sc, from) ==
    [hash |-> HashString(tok), tenant |-> t, client |-> c, user |-> u,
     scope |-> sc, createdAt |-> now, expiresAt |-> now + RefreshTTL,
     revokedAt |-> Nil, rotatedFrom |-> from]

\* tokens.Service.IssueRefreshToken
IssueRefreshToken(t, u, c, sc) ==
    /\ nextTok <= MaxTokens
    /\ nextTok - 1 - Cardinality(DOMAIN rtParent) < MaxRoots
    /\ refreshTokens' = Put(refreshTokens, HashString(nextTok),
                            NewRefreshToken(nextTok, t, c, u, sc, NoHash))
    /\ nextTok' = nextTok + 1
    /\ issued' = issued \cup {Event("refresh", t, u, "issue")}
    /\ UNCHANGED <<now, rbacVars, domVars, httpLog, keyVars, logVars,
                   adminVars, sessVars, codeVars, revokeLog, rtParent,
                   replayed, disclosed, pc, loc, res, calls>>

\* the token tok has been rotated: a token rotated from it was stored
HasChild(tok) == \E k \in DOMAIN rtParent : rtParent[k] = tok

RECURSIVE IsAncestor(_, _)
\* a is a strict ancestor of k in the rotation chain
IsAncestor(a, k) ==
    /\ k \in DOMAIN rtParent
    /\ (rtParent[k] = a \/ IsAncestor(a, rtParent[k]))

\* oauth.Service.handleRefreshToken, entry
RefStart(p, t, tok, c, sc) ==
    /\ Idle(p)
    /\ calls < MaxCalls
    /\ calls' = calls + 1
    /\ pc' = [pc EXCEPT ![p] = "rot_get"]
    /\ loc' = [loc EXCEPT ![p] =
                 [NoLoc EXCEPT !.op = "refresh", !.tenant = t, !.arg = tok,
                               !.client = c, !.scope = sc,
                               !.late = HasChild(tok),
                               !.chain = (\E a \in replayed :
                                              IsAncestor(a, tok))]]
    /\ UNCHANGED <<now, rbacVars, domVars, httpLog, keyVars, logVars,
                   adminVars, sessVars, codeVars, tokVars, res, issued>>

\* the rotation request p ends with the error e
RotFail(p, e) ==
    /\ pc' = [pc EXCEPT ![p] = "done"]
    /\ res' = [res EXCEPT ![p] = Err(e)]
    /\ loc' = [loc EXCEPT ![p].snap = {}]
    /\ replayed' = IF HasChild(loc[p].arg) THEN replayed \cup {loc[p].arg}
                   ELSE replayed

\* tokens.Service.RotateRefreshToken: GetByHash and the revoked / expired
\* checks
RotGet(p) ==
    /\ pc[p] = "rot_get"
    /\ LET found == RtGetByHash(loc[p].tenant, HashString(loc[p].arg))
           rt == Row(found) IN
       IF found = {} THEN RotFail(p, "record not found")
       ELSE IF rt.revokedAt # Nil THEN RotFail(p, "refresh token revoked")
       ELSE IF now > rt.expiresAt THEN RotFail(p, "refresh token expired")
       ELSE /\ pc' = [pc EXCEPT ![p] = "rot_revoke"]
            /\ loc' = [loc EXCEPT ![p].snap = {rt}]
            /\ UNCHANGED <<res, replayed>>
    /\ UNCHANGED <<now, rbacVars, domVars, httpLog, keyVars, logVars,
                   adminVars, sessVars, codeVars, refreshTokens, nextTok,
                   revokeLog, rtParent, disclosed, calls, issued>>

\* tokens.Service.RotateRefreshToken: Revoke(old)
RotRevoke(p) ==
    /\ pc[p] = "rot_revoke"
    /\ LET h == HashString(loc[p].arg) IN
       /\ refreshTokens' = RtStoreRevoke(refreshTokens, loc[p].tenant, h)
       /\ revokeLog' = revokeLog \cup RtRevokeEffect(loc[p].tenant, h)
       /\ loc' = [loc EXCEPT ![p].didRevoke = (h \in DOMAIN refreshTokens)]
    /\ pc' = [pc EXCEPT ![p] = "rot_create"]
    /\ UNCHANGED <<now, rbacVars, domVars, httpLog, keyVars, logVars,
                   adminVars, sessVars, codeVars, nextTok, rtParent,
                   replayed, disclosed, res, calls, issued>>

\* tokens.Service.RotateRefreshToken: Create(new), which may fail (storage
\* error, cancelled context); the revocation is not undone
RotCreate(p) ==
    /\ pc[p] = "rot_create"
    /\ \/ /\ nextTok <= MaxTokens
          /\ refreshTokens' =
               Put(refreshTokens, HashString(nextTok),
                   NewRefreshToken(nextTok, Row(loc[p].snap).tenant,
                                   Row(loc[p].snap).client,
                                   Row(loc[p].snap).user,
                                   Row(loc[p].snap).scope,
                                   HashString(loc[p].arg)))
          /\ nextTok' = nextTok + 1
          /\ rtParent' = Put(rtParent, nextTok, loc[p].arg)
          /\ issued' = issued \cup {Event("refresh", Row(loc[p].snap).tenant,
                                          Row(loc[p].snap).user, "rotate")}
          /\ pc' = [pc EXCEPT ![p] = "ref_issue"]
          /\ loc' = [loc EXCEPT ![p].didCreate = TRUE, ![p].stamp = nextTok]
          /\ res' = res
       \/ /\ pc' = [pc EXCEPT ![p] = "done"]
          /\ res' = [res EXCEPT ![p] = Err("store new refresh token")]
          /\ loc' = [loc EXCEPT ![p].snap = {}]
          /\ UNCHANGED <<refreshTokens, nextTok, rtParent, issued>>
    /\ UNCHANGED <<now, rbacVars, domVars, httpLog, keyVars, logVars,
                   adminVars, sessVars, codeVars, revokeLog, replayed,
                   disclosed, calls>>

\* what the history keeps of the last grant that returned an access token:
\* the claims handed to IssueAccessToken (sub, aud, scope), the scope of the
\* response, the row the grant was based on (the rotated refresh token, or
\* the client's own values) and whether the presented secret matched
Granted(grant, sub, aud, sc, respScope, row, secretOK) ==
    [grant |-> grant, sub |-> sub, aud |-> aud, scope |-> sc,
     respScope |-> respScope, user |-> row.user, client |-> row.client,
     rowScope |-> row.scope, secretOK |-> secretOK]

\* oauth.Service.handleRefreshToken: IssueAccessToken(tenant, "", req.ClientID,
\* req.Scope) and the response, whose Scope is req.Scope
RefIssue(p) ==
    /\ pc[p] = "ref_issue"
    /\ \E signed \in SignOutcomes(loc[p].tenant) :
         IF signed
         THEN /\ issued' = issued \cup
                     {Event("access", loc[p].tenant, "", "refresh")}
              /\ res' = [res EXCEPT ![p] = Ok(loc[p].stamp)]
              /\ accessLog' =
                    {Granted("refresh_token", "", loc[p].client,
                             loc[p].scope, loc[p].scope, Row(loc[p].snap),
                             TRUE)}
         ELSE /\ issued' = issued
              /\ res' = [res EXCEPT ![p] = Err("issue access token")]
              /\ accessLog' = accessLog
    /\ pc' = [pc EXCEPT ![p] = "done"]
    /\ loc' = [loc EXCEPT ![p].snap = {}]
    /\ UNCHANGED <<now, rbacVars, domVars, httpLog, keyVars, authLog, exchLog,
                   adminVars, sessVars, codeVars, tokVars, calls>>

\* oauth.Service.Revoke
OAuthRevoke(t, tok) ==
    /\ refreshTokens' = RtStoreRevoke(refreshTokens, t, HashString(tok))
    /\ revokeLog' = revokeLog \cup RtRevokeEffect(t, HashString(tok))
    /\ refreshTokens' # refreshTokens
    /\ UNCHANGED <<now, rbacVars, domVars, httpLog, keyVars, logVars,
                   adminVars, sessVars, codeVars, nextTok, rtParent,
                   replayed, disclosed, pc, loc, res, calls, issued>>

\* oauth.Service.Introspect (refresh tokens): the rows whose fields the
\* answer carries, as <<caller tenant, owner tenant>>; {active: false}
\* carries none
IntrospectDiscloses(t, tok) ==
    LET found == RtGetByHash(t, HashString(tok))
        rt == Row(found) IN
    IF found = {} THEN {}
    ELSE IF rt.revokedAt # Nil \/ now > rt.expiresAt THEN {}
    ELSE {[caller |-> t, owner |-> rt.tenant]}

\* oauth.Service.Introspect
Introspect(t, tok) ==
    /\ disclosed' = disclosed \cup IntrospectDiscloses(t, tok)
    /\ disclosed' # disclosed
    /\ UNCHANGED <<now, rbacVars, domVars, httpLog, keyVars, logVars,
                   adminVars, sessVars, codeVars, refreshTokens, nextTok,
                   revokeLog, rtParent, replayed, pc, loc, res, calls, issued>>

\* ------------------------------------------------------------ SpecRefresh
\* the users refresh tokens are issued to under SpecRefresh; requests come
\* from both tenants
RefreshUsers == {"u1"}

NextRefresh ==
    \/ Tick
    \/ \E u \in RefreshUsers, c \in Clients, sc \in Scopes :
          IssueRefreshToken(UserTenant(u), u, c, sc)
    \/ \E p \in Procs, t \in Tenants, tok \in 1..(nextTok - 1),
          c \in Clients, sc \in Scopes : RefStart(p, t, tok, c, sc)
    \/ \E p \in Procs : RotGet(p)
    \/ \E p \in Procs : RotRevoke(p)
    \/ \E p \in Procs : RotCreate(p)
    \/ \E p \in Procs : RefIssue(p)
    \/ \E t \in Tenants, tok \in 1..(nextTok - 1) : OAuthRevoke(t, tok)
    \/ \E t \in Tenants, tok \in 1..(nextTok - 1) : Introspect(t, tok)
    \/ CleanupExpired

SpecRefresh == Init /\ [][NextRefresh]_vars

\* ---------------------------------------------------- claims: refresh tokens

\* C2: for every refresh token r at most one rotation succeeds (r never gets
\* two child tokens), and a refresh request that presents r after r has
\* been rotated yields no new token.
C2_AtMostOneRotation ==
    /\ \A tok \in 1..MaxTokens :
          Cardinality({k \in DOMAIN rtParent : rtParent[k] = tok}) <= 1
    /\ \A p \in Procs :
          Finished(p, "refresh") /\ loc[p].late => res[p].err # ""

\* C3: RotateRefreshToken is atomic: when a rotation attempt has ended,
\* either the old row was revoked and the new row inserted, or neither
\* change persisted (a failed insert leaves the old token unrevoked).
C3_RotationAtomic ==
    \A p \in Procs :
        Finished(p, "refresh") => (loc[p].didRevoke <=> loc[p].didCreate)

\* C4: refresh-token replay revokes the chain: a request that presents an
\* already rotated token fails, and every later refresh request presenting
\* a descendant of that token fails too.
C4_ReplayRevokesChain ==
    \A p \in Procs :
        Finished(p, "refresh") /\ (loc[p].late \/ loc[p].chain)
            => res[p].err # "" /\ ~loc[p].didCreate

\* C8: no Revoke, Introspect or refresh_token grant invoked with tenant B
\* sets revoked_at on, or discloses, a refresh token of a tenant A # B.
C8_RefreshTokensTenantScoped ==
    /\ \A e \in revokeLog : e.caller = e.owner
    /\ \A e \in disclosed : e.caller = e.owner


\* ------------------------------------------------------------ SpecSession
NextSession ==
    \/ Tick
    \/ \E u \in Users, c \in Clients : SessCreate(UserTenant(u), u, c)
    \/ \E p \in Procs, t \in Tenants, id \in 1..(nextSess - 1) :
          ValStart(p, t, id)
    \/ \E p \in Procs : ValGet(p)
    \/ \E p \in Procs : ValUpdate(p)
    \/ \E t \in Tenants, id \in 1..(nextSess - 1) : SessRevoke(t, id)
    \/ CleanupExpired

SpecSession == Init /\ [][NextSession]_vars

\* --------------------------------------------------------- claims: sessions

\* a finished Validate that began after Revoke of the same (tenant, session)
\* had completed
LateValidate(p) == Finished(p, "validate") /\ loc[p].late

\* C6 (as stated): after Revoke(tenant, s) has completed, every subsequent
\* Validate(tenant, s) fails with SessionRevoked, whatever concurrent
\* Validate calls and the sweeper do.
C6_RevokedThenValidateSaysRevoked ==
    \A p \in Procs : LateValidate(p) => res[p].err = "session revoked"

\* C6 (amended): after Revoke(tenant, s) has completed, every subsequent
\* Validate(tenant, s) fails and returns no session: with SessionRevoked
\* while the row exists, with not-found once the sweeper has deleted the
\* revoked row.
C6_RevokedThenValidateFails ==
    \A p \in Procs :
        LateValidate(p) =>
            /\ res[p].err \in {"session revoked", "record not found"}
            /\ res[p].val = Nil
            /\ res[p].err = "record not found" =>
                  loc[p].arg \notin DOMAIN sessions

\* C6 witness: a late Validate answered "session revoked" for a session on
\* which a concurrent Validate wrote last_seen_at after the revocation
C6_Witness ==
    \E p, q \in Procs :
        /\ p # q
        /\ LateValidate(p) /\ res[p].err = "session revoked"
        /\ Finished(q, "validate") /\ res[q].err = "" /\ ~loc[q].late
        /\ loc[q].arg = loc[p].arg
        /\ loc[p].arg \in DOMAIN sessions
        /\ sessions[loc[p].arg].lastSeenAt > sessions[loc[p].arg].createdAt

\* a Validate presented with a session created for another tenant
CrossTenantValidate(p) ==
    /\ loc[p].op = "validate"
    /\ loc[p].arg \in DOMAIN sessOwner
    /\ sessOwner[loc[p].arg] # loc[p].tenant

\* C7: Validate(B, s) for a session s of tenant A # B fails with not-found,
\* returns no session and never reaches the last_seen_at write.
C7_CrossTenantValidateNotFound ==
    \A p \in Procs :
        CrossTenantValidate(p) =>
            /\ pc[p] # "val_update"
            /\ pc[p] = "done" =>
                  res[p].err = "record not found" /\ res[p].val = Nil

\* C7 witness: a cross-tenant Validate finished while the session was live
\* and valid for its own tenant
C7_Witness ==
    \E p \in Procs :
        /\ CrossTenantValidate(p) /\ pc[p] = "done"
        /\ loc[p].arg \in DOMAIN sessions
        /\ sessions[loc[p].arg].revokedAt = Nil
        /\ now <= sessions[loc[p].arg].createdAt + SessionTTL

\* ======================================================= authorization codes

\* PasswordHasher.Hash of a client secret
SecretHash(secret) == <<"argon2id", secret>>

\* table clients (not written to here): per tenant the public client "web"
\* (client_secret_hash NULL) and the confidential client "svc"
ClientRows ==
    {[tenant |-> t, clientID |-> c, redirectURIs |-> {"cb"},
      clientSecretHash |-> NoHash] : t \in Tenants, c \in Clients}
    \cup
    {[tenant |-> t, clientID |-> "svc", redirectURIs |-> {"cb"},
      clientSecretHash |-> SecretHash("s3cret")] : t \in Tenants}

\* the redirect URIs requests present: the registered one, and the same
\* with a trailing slash
Redirects == {"cb", "cb/"}

\* a matching that ignores a trailing slash
RedirectNormalized(uris, redirect) ==
    redirect \in uris \/ (redirect = "cb/" /\ "cb" \in uris)

\* oauth.Service.Authorize, the loop over client.RedirectURIs:
\* uri == req.RedirectURI
RedirectRegistered(uris, redirect) == redirect \in uris

Verifiers == {"v1", "v2"}
Passwords == {"password123", "wrong"}

\* clientStore.GetByClientID: First(tenant_id = ? AND client_id = ?)
GetByClientID(t, c) == {r \in ClientRows : r.tenant = t /\ r.clientID = c}

\* userStore.GetByEmail: First(tenant_id = ? AND email = ?)
GetByEmail(t, e) == {u \in Users : UserTenant(u) = t /\ UserEmail(u) = e}

\* userStore.GetPassword: the users that have a credentials row
GetPassword(u) == {x \in Users : x = u}

\* oauth.Service.Authorize, the checks in their order: the client, the
\* redirect URI, the response type ("" when the request passes); neither
\* CodeChallenge nor CodeChallengeMethod is looked at
AuthorizeError(t, c, redirect, responseType) ==
    IF GetByClientID(t, c) = {} THEN "client not found"
    ELSE IF ~RedirectRegistered(Row(GetByClientID(t, c)).redirectURIs,
                                redirect)
    THEN "invalid redirect uri"
    ELSE IF responseType # "code" THEN "unsupported response type"
    ELSE ""

\* what the history keeps of an Authorize request
AuthorizeRequest(t, c, redirect, challenge, method, responseType) ==
    [tenant |-> t, client |-> c, redirect |-> redirect,
     challenge |-> challenge, method |-> method,
     err |-> AuthorizeError(t, c, redirect, responseType)]

\* oauth.Service.Authorize, a request that passes the checks: the code row
\* takes PKCEChallenge and PKCEMethod from the request as they are
Authorize(t, c, u, redirect, challenge, method, sc, responseType) ==
    /\ nextCode <= MaxCodes
    /\ AuthorizeError(t, c, redirect, responseType) = ""
    /\ oauthCodes' = Put(oauthCodes, HashString(nextCode),
                         [hash |-> HashString(nextCode), tenant |-> t,
                          client |-> c, user |-> u, redirect |-> redirect,
                          challenge |-> challenge, method |-> method,
                          scope |-> sc,
                          expiresAt |-> now + CodeTTL, usedAt |-> Nil,
                          createdAt |-> now])
    /\ nextCode' = nextCode + 1
    /\ codeOwner' = Put(codeOwner, nextCode, t)
    /\ consumeOK' = Put(consumeOK, nextCode, 0)
    /\ issued' = issued \cup {Event("code", t, u, "authorize")}
    /\ authLog' = {AuthorizeRequest(t, c, redirect, challenge, method,
                                    responseType)}
    /\ UNCHANGED <<now, rbacVars, domVars, httpLog, keyVars, accessLog, exchLog,
                   adminVars, sessVars, tokVars, pc, loc, res, calls>>

\* oauth.Service.Authorize, a request that fails a check: an error and no
\* code row
AuthorizeRejected(t, c, redirect, challenge, method, responseType) ==
    /\ AuthorizeError(t, c, redirect, responseType) # ""
    /\ authLog' = {AuthorizeRequest(t, c, redirect, challenge, method,
                                    responseType)}
    /\ authLog' # authLog
    /\ UNCHANGED <<now, rbacVars, domVars, httpLog, keyVars, accessLog, exchLog, adminVars, sessVars,
                   codeVars, tokVars, pc, loc, res, calls, issued>>

\* Server.handleLoginSubmit: GetByEmail, GetPassword, the password
\* comparison, then the authorize handler with user_id = user.ID
handleLoginSubmit(t, email, password, c, redirect, challenge, sc) ==
    /\ GetByEmail(t, email) # {}
    /\ GetPassword(Row(GetByEmail(t, email))) # {}
    /\ password = "password123"
    /\ Authorize(t, c, Row(GetByEmail(t, email)), redirect, challenge,
                 "S256", sc, "code")

\* AdminHandlers.UpdateTenant with a status
UpdateTenant(t, status) ==
    /\ tenantStatus[t] # status
    /\ tenantStatus' = [tenantStatus EXCEPT ![t] = status]
    /\ UNCHANGED <<now, rbacVars, domVars, httpLog, keyVars, logVars,
                   userStatus, signingKeys, sessVars, codeVars, tokVars,
                   pc, loc, res, calls, issued>>

\* AdminHandlers.UpdateUser with a status
UpdateUser(u, status) ==
    /\ userStatus[u] # status
    /\ userStatus' = [userStatus EXCEPT ![u] = status]
    /\ UNCHANGED <<now, rbacVars, domVars, httpLog, keyVars, logVars,
                   tenantStatus, signingKeys, sessVars, codeVars,
                   tokVars, pc, loc, res, calls, issued>>

\* oauthCodeStore.GetAndConsume, the SELECT:
\* First(code_hash = ? AND tenant_id = ?)
CodeSelect(t, h) ==
    {oauthCodes[i] : i \in {j \in DOMAIN oauthCodes :
                               j = h /\ oauthCodes[j].tenant = t}}

\* an UPDATE that is lost
CodeLeaveUnused(tbl, h) == tbl

\* oauthCodeStore.GetAndConsume, the UPDATE:
\* UPDATE oauth_codes SET used_at = now WHERE code_hash = ?
\* (no used_at IS NULL predicate; no row matched is no error)
CodeMarkUsed(tbl, h) ==
    IF h \in DOMAIN tbl THEN [tbl EXCEPT ![h].usedAt = now] ELSE tbl

\* fmt.Sprintf("user:%s", userID)
UserSubject(u) == "user:" \o u

\* rbac.Service.RolesForUser: the grouping rows of the tenant whose v0 is the
\* user, and of each its v2
RolesForUser(rows, t, u) ==
    {r.v2 : r \in {x \in rows : /\ x.tenant = t /\ x.type = "g"
                                /\ x.v0 = UserSubject(u)}}

\* the roles handleAuthorizationCode passes to IssueAccessToken:
\* roles := []string{}
ExchangeRoles == {}

\* oauth.Service.handleAuthorizationCode, entry
ExchStart(p, t, code, verifier, redirect) ==
    /\ Idle(p)
    /\ calls < MaxExchanges
    /\ calls' = calls + 1
    /\ pc' = [pc EXCEPT ![p] = "gac_select"]
    /\ loc' = [loc EXCEPT ![p] =
                 [NoLoc EXCEPT !.op = "exchange", !.tenant = t, !.arg = code,
                               !.verifier = verifier, !.redirect = redirect,
                               !.late = (consumeOK[code] > 0)]]
    /\ UNCHANGED <<now, rbacVars, domVars, httpLog, keyVars, logVars,
                   adminVars, sessVars, codeVars, tokVars, res, issued>>

\* the exchange request p ends with the error e
ExchFail(p, e) ==
    /\ pc' = [pc EXCEPT ![p] = "done"]
    /\ res' = [res EXCEPT ![p] = Err(e)]
    /\ loc' = [loc EXCEPT ![p].snap = {}]

\* oauthCodeStore.GetAndConsume: Begin, SELECT, the used_at and expiry tests
GacSelect(p) ==
    /\ pc[p] = "gac_select"
    /\ LET found == CodeSelect(loc[p].tenant, HashString(loc[p].arg))
           model == Row(found) IN
       IF found = {} THEN ExchFail(p, "record not found")
       ELSE IF model.usedAt # Nil THEN ExchFail(p, "code already used")
       ELSE IF now > model.expiresAt THEN ExchFail(p, "code expired")
       ELSE /\ pc' = [pc EXCEPT ![p] = "gac_update"]
            /\ loc' = [loc EXCEPT ![p].snap = {model}]
            /\ res' = res
    /\ UNCHANGED <<now, rbacVars, domVars, httpLog, keyVars, logVars,
                   adminVars, sessVars, codeVars, tokVars, calls, issued>>

\* oauthCodeStore.GetAndConsume: UPDATE and Commit; the call returns the
\* snapshot read by the SELECT
GacUpdate(p) ==
    /\ pc[p] = "gac_update"
    /\ oauthCodes' = CodeMarkUsed(oauthCodes, HashString(loc[p].arg))
    /\ consumeOK' = [consumeOK EXCEPT ![loc[p].arg] = @ + 1]
    /\ pc' = [pc EXCEPT ![p] = "exch_issue"]
    /\ loc' = [loc EXCEPT ![p].didRevoke = TRUE]
    /\ UNCHANGED <<now, rbacVars, domVars, httpLog, keyVars, logVars,
                   adminVars, sessVars, nextCode, codeOwner, tokVars,
                   res, calls, issued>>

\* oauth.Service.handleAuthorizationCode after GetAndConsume: the PKCE and
\* redirect tests, IssueAccessToken, IssueRefreshToken
ExchIssue(p) ==
    /\ pc[p] = "exch_issue"
    /\ LET code == Row(loc[p].snap) IN
       IF /\ code.challenge # NoHash
          /\ HashString(loc[p].verifier) # code.challenge
       THEN ExchFail(p, "invalid code verifier")
            /\ UNCHANGED <<refreshTokens, nextTok, issued, exchLog>>
       ELSE IF code.redirect # loc[p].redirect
       THEN ExchFail(p, "invalid redirect uri")
            /\ UNCHANGED <<refreshTokens, nextTok, issued, exchLog>>
       ELSE \E signed \in SignOutcomes(loc[p].tenant) :
       IF ~signed
       THEN ExchFail(p, "issue access token")
            /\ UNCHANGED <<refreshTokens, nextTok, issued, exchLog>>
       ELSE /\ nextTok <= MaxTokens
            /\ refreshTokens' =
                 Put(refreshTokens, HashString(nextTok),
                     NewRefreshToken(nextTok, loc[p].tenant, code.client,
                                     code.user, code.scope, NoHash))
            /\ nextTok' = nextTok + 1
            /\ issued' = issued \cup
                   {Event("access", loc[p].tenant, code.user, "code"),
                    Event("refresh", loc[p].tenant, code.user, "code")}
            /\ pc' = [pc EXCEPT ![p] = "done"]
            /\ res' = [res EXCEPT ![p] = Ok(nextTok)]
            /\ loc' = [loc EXCEPT ![p].snap = {}, ![p].didCreate = TRUE]
            /\ exchLog' = exchLog \cup
                   {[verifier |-> loc[p].verifier,
                     challenge |-> code.challenge,
                     redirect |-> loc[p].redirect,
                     stored |-> code.redirect,
                     roles |-> ExchangeRoles,
                     userRoles |-> RolesForUser(rbacTuples, loc[p].tenant,
                                                code.user)]}
    /\ UNCHANGED <<now, rbacVars, domVars, httpLog, keyVars, accessLog, authLog,
                   adminVars, sessVars, codeVars, revokeLog, rtParent,
                   replayed, disclosed, calls>>

\* --------------------------------------------------------------- SpecCode
NextCode ==
    \/ Tick
    \/ \E u \in Users, c \in Clients, sc \in Scopes :
          Authorize(UserTenant(u), c, u, "cb", HashString("v1"), "S256", sc,
                    "code")
    \/ \E t \in Tenants, e \in Emails, pw \in Passwords, c \in Clients,
          sc \in Scopes :
          handleLoginSubmit(t, e, pw, c, "cb", HashString("v1"), sc)
    \/ \E p \in Procs, t \in Tenants, code \in 1..(nextCode - 1),
          v \in Verifiers : ExchStart(p, t, code, v, "cb")
    \/ \E p \in Procs : GacSelect(p)
    \/ \E p \in Procs : GacUpdate(p)
    \/ \E p \in Procs : ExchIssue(p)
    \/ CleanupExpired

SpecCode == Init /\ [][NextCode]_vars

\* ------------------------------------------------------------- SpecStatus
\* the admin status updates against every operation that creates a
\* credential; one request at a time
NextStatus ==
    \/ \E t \in Tenants : \E status \in {"active", "suspended"} :
          UpdateTenant(t, status)
    \/ \E u \in Users : \E status \in {"active", "disabled"} :
          UpdateUser(u, status)
    \/ \E u \in Users, c \in Clients : SessCreate(UserTenant(u), u, c)
    \/ \E u \in Users, c \in Clients, sc \in Scopes :
          Authorize(UserTenant(u), c, u, "cb", NoHash, "", sc, "code")
    \/ \E t \in Tenants, e \in Emails, c \in Clients, sc \in Scopes :
          handleLoginSubmit(t, e, "password123", c, "cb", NoHash, sc)
    \/ \E code \in 1..(nextCode - 1) :
          ExchStart("p1", codeOwner[code], code, "v1", "cb")
    \/ GacSelect("p1")
    \/ GacUpdate("p1")
    \/ ExchIssue("p1")
    \/ \E tok \in 1..(nextTok - 1), c \in Clients, sc \in Scopes :
          RefStart("p1", "tA", tok, c, sc)
    \/ RotGet("p1")
    \/ RotRevoke("p1")
    \/ RotCreate("p1")
    \/ RefIssue("p1")

SpecStatus == Init /\ [][NextStatus]_vars

\* ------------------------------------------- claims: authorization codes

\* C1: for every authorization code c, over every interleaving of concurrent
\* GetAndConsume(T, hash(c)) calls, at most one call returns successfully.
C1_AtMostOneConsume ==
    \A c \in DOMAIN consumeOK : consumeOK[c] <= 1

\* a finished exchange for the code's own tenant that began after a
\* GetAndConsume of the same code had returned successfully
LateExchange(p) ==
    /\ Finished(p, "exchange")
    /\ loc[p].late
    /\ loc[p].tenant = codeOwner[loc[p].arg]

\* C5 (as stated): once an exchange has consumed c, every later exchange
\* presenting c fails with CodeAlreadyUsed and issues no token, also after
\* the cleanup of used codes has run.
C5_ReplaySaysCodeAlreadyUsed ==
    \A p \in Procs :
        LateExchange(p) =>
            res[p].err = "code already used" /\ ~loc[p].didCreate

\* C5 (amended): once an exchange has consumed c, every later exchange
\* presenting c fails and issues no token: with CodeAlreadyUsed while the
\* row exists, with not-found once the cleanup has deleted the row.
C5_ReplayFails ==
    \A p \in Procs :
        LateExchange(p) =>
            /\ res[p].err \in {"code already used", "record not found"}
            /\ res[p].val = Nil
            /\ ~loc[p].didCreate
            /\ res[p].err = "record not found" =>
                  HashString(loc[p].arg) \notin DOMAIN oauthCodes

\* C5 witness: an exchange was answered with tokens, and a later exchange
\* of the same code was refused
C5_Witness ==
    \E p, q \in Procs :
        /\ p # q
        /\ LateExchange(p) /\ res[p].err = "code already used"
        /\ Finished(q, "exchange") /\ loc[q].didCreate
        /\ loc[q].arg = loc[p].arg

\* ------------------------------------------------- claims: account status

\* C9: no authorization code, session, access token or refresh token is
\* created for a tenant while its status is suspended.
C9_SuspendedTenantFailsClosed ==
    \A e \in issued : e.tstatus # "suspended"

\* C10: no authorization code (login), access token or refresh token is
\* issued for a user while the user's status is disabled, including by the
\* exchange of a code and the rotation of a token issued before.
C10_DisabledUserGetsNothing ==
    \A e \in issued :
        e.kind \in {"code", "access", "refresh"} => e.ustatus # "disabled"

\* ============================================================= signing keys

\* x509.MarshalECPrivateKey in GenerateKey: the DER bytes of private key k
MarshalECPrivateKey(k) == <<"der", k>>

\* x509.ParseECPrivateKey in KeyManager.Sign: DER bytes to *ecdsa.PrivateKey
ParseECPrivateKey(b) == <<"ecdsa", b[2]>>

\* encryptPrivateKey and decryptPrivateKey with the nil master key that main
\* and JWTManager.Sign pass: the bytes come back as they went in
encryptPrivateKey(plaintext) == plaintext
decryptPrivateKey(ciphertext) == ciphertext

\* jwt.Token.SignedString with SigningMethodES256: signs with an
\* *ecdsa.PrivateKey and fails on any other key type (ErrInvalidKeyType)
SignedStringOK(key) == key[1] = "ecdsa"

\* signing_keys.private_key_encrypted of the key kid, as GenerateKey stores it
PrivateKeyEncrypted(kid) == encryptPrivateKey(MarshalECPrivateKey(kid))

\* ORDER BY created_at DESC ... First: the newest row of S; of two keys
\* created in the same tick the one generated later is the newer
NewestKey(S) ==
    CHOOSE k \in S : \A j \in S :
        j.createdAt < k.createdAt \/ (j.createdAt = k.createdAt
                                      /\ j.kid <= k.kid)

\* signingKeyStore.GetByKID: First(tenant_id = ? AND kid = ?)
GetByKID(t, kid) == {k \in signingKeys : k.tenant = t /\ k.kid = kid}

\* KeyManager.GenerateKey: a new key with status active, valid from now for
\* KeyLifetime; no other row is touched
GenerateKey(t) ==
    /\ Cardinality(signingKeys) < MaxKeys
    /\ signingKeys' = signingKeys \cup
           {[kid |-> Cardinality(signingKeys) + 1, tenant |-> t,
             status |-> "active", createdAt |-> now, notBefore |-> now,
             notAfter |-> now + KeyLifetime]}
    /\ UNCHANGED <<now, rbacVars, domVars, httpLog, keyVars, logVars, tenantStatus, userStatus,
                   sessVars, codeVars, tokVars, pc, loc, res, calls, issued>>

\* UPDATE signing_keys SET status = ? WHERE id = ?
KeySetStatus(id, status) ==
    /\ \E k \in signingKeys : k.kid = id /\ k.status # status
    /\ signingKeys' = {IF k.kid = id THEN [k EXCEPT !.status = status]
                       ELSE k : k \in signingKeys}
    /\ UNCHANGED <<now, rbacVars, domVars, httpLog, keyVars, logVars, tenantStatus, userStatus,
                   sessVars, codeVars, tokVars, pc, loc, res, calls, issued>>

\* signingKeyStore.MarkInactive: the tenant argument is not used
MarkInactive(t, id) == KeySetStatus(id, "inactive")

\* signingKeyStore.MarkRetired: the tenant argument is not used
MarkRetired(t, id) == KeySetStatus(id, "retired")

\* tokens.Service.IssueAccessToken: the issuer it passes to Sign
IssuerOf(t) ==
    IF t = "tA" THEN "https://tA.auth.example.com"
    ELSE "https://tB.auth.example.com"

\* the claims IssueAccessToken hands to the signer
AccessClaims(u, c, sc, sid) ==
    [sub |-> u, aud |-> c, scope |-> sc, roles |-> "", sid |-> sid]

\* a signed JWT: the kid header, the key whose private half signed it, the
\* registered claims and the caller's claims; usable says what GetActive
\* had checked of the key when it signed
Jwt(key, iss, tid, nbf, exp, claims) ==
    [kid |-> key.kid, signedBy |-> key.kid, iss |-> iss, tid |-> tid,
     nbf |-> nbf, exp |-> exp, sub |-> claims.sub, aud |-> claims.aud,
     scope |-> claims.scope, roles |-> claims.roles, sid |-> claims.sid,
     usable |-> [tenant |-> key.tenant, status |-> key.status,
                 inWindow |-> key.notBefore <= now /\ now < key.notAfter,
                 newest |-> \A j \in signingKeys :
                               (/\ j.tenant = tid /\ j.status = "active"
                                /\ j.notBefore <= now /\ now < j.notAfter)
                               => j.kid <= key.kid]]

\* JWTManager.Sign: GetActive, decryptPrivateKey, the claims iss, iat, nbf,
\* exp, jti and tid, then SignedString on the decrypted bytes; the set of
\* tokens it returns (empty on an error)
JWTManagerSign(t, issuer, claims, ttl) ==
    LET found == GetActive(t) IN
    IF found = {} THEN {}
    ELSE LET key == NewestKey(found)
             privateKey == decryptPrivateKey(PrivateKeyEncrypted(key.kid))
         IN IF SignedStringOK(privateKey)
            THEN {Jwt(key, issuer, t, now, now + ttl, claims)}
            ELSE {}

\* KeyManager.Sign: GetActive, decryptPrivateKey, x509.ParseECPrivateKey,
\* exactly the caller's claims, then SignedString
KeyManagerSignResult(t, iss, tid, nbf, exp, claims) ==
    LET found == GetActive(t) IN
    IF found = {} THEN {}
    ELSE LET key == NewestKey(found)
             privateKey == ParseECPrivateKey(
                               decryptPrivateKey(PrivateKeyEncrypted(key.kid)))
         IN IF SignedStringOK(privateKey)
            THEN {Jwt(key, iss, tid, nbf, exp, claims)}
            ELSE {}

\* KeyManager.Sign called with the claims of an access token of tenant t
\* whose issuer is iss
KeyManagerSign(t, iss, u, c, sc) ==
    /\ Cardinality(jwts) < MaxJwts
    /\ jwts' = jwts \cup
           KeyManagerSignResult(t, iss, t, now, now + AccessTTL,
                                AccessClaims(u, c, sc, ""))
    /\ jwts' # jwts
    /\ UNCHANGED <<now, rbacVars, domVars, httpLog, issueLog, verifyLog, logVars, adminVars, sessVars,
                   codeVars, tokVars, pc, loc, res, calls, issued>>

\* tokens.Service.IssueAccessToken with the signer main wires in,
\* JWTManager.Sign
IssueAccessToken(t, u, c, sc, sid) ==
    LET signed == JWTManagerSign(t, IssuerOf(t), AccessClaims(u, c, sc, sid),
                                 AccessTTL) IN
    /\ jwts' = jwts \cup signed
    /\ issueLog' = {[tenant |-> t, usable |-> GetActive(t) # {},
                     ok |-> signed # {}]}
    /\ issueLog' # issueLog
    /\ UNCHANGED <<now, rbacVars, domVars, httpLog, verifyLog, logVars, adminVars, sessVars, codeVars,
                   tokVars, pc, loc, res, calls, issued>>

\* JWTManager.Verify: the key is looked up by (tenant, kid header) alone, the
\* signature is checked against its public JWK, then exp, nbf and
\* WithIssuer(tenantID); "" when the token is accepted
VerifyError(t, tok) ==
    LET found == GetByKID(t, tok.kid) IN
    IF found = {} THEN "get key"
    ELSE IF Row(found).kid # tok.signedBy THEN "signature is invalid"
    ELSE IF ~(now < tok.exp) THEN "token is expired"
    ELSE IF now < tok.nbf THEN "token is not valid yet"
    ELSE IF tok.iss # t THEN "token has invalid issuer"
    ELSE ""

\* what the history keeps of a Verify call that accepted tok
Verified(t, tok) ==
    LET key == Row(GetByKID(t, tok.kid)) IN
    [tenant |-> t, status |-> key.status, live |-> now < key.notAfter]

\* JWTManager.Verify
Verify(t, tok) ==
    /\ VerifyError(t, tok) = ""
    /\ verifyLog' = {Verified(t, tok)}
    /\ verifyLog' # verifyLog
    /\ UNCHANGED <<now, rbacVars, domVars, httpLog, jwts, issueLog, logVars, adminVars, sessVars,
                   codeVars, tokVars, pc, loc, res, calls, issued>>

\* ---------------------------------------------------------------- SpecKeys
\* the tenant whose keys are generated and used for signing under SpecKeys;
\* tokens are presented to Verify under every tenant
KeyTenants == {"tA"}
KeysOf(T) == {k \in signingKeys : k.tenant \in T}

NextKeys ==
    \/ Advance(MaxKeyTime)
    \/ \E t \in KeyTenants : GenerateKey(t)
    \/ \E t \in Tenants, k \in KeysOf(KeyTenants) : MarkInactive(t, k.kid)
    \/ \E t \in Tenants, k \in KeysOf(KeyTenants) : MarkRetired(t, k.kid)
    \/ \E t \in KeyTenants, c \in Clients, sc \in Scopes :
          \E iss \in {t, IssuerOf(t)} : KeyManagerSign(t, iss, "u1", c, sc)
    \/ \E t \in KeyTenants, c \in Clients, sc \in Scopes :
          IssueAccessToken(t, "u1", c, sc, "")
    \/ \E t \in Tenants, tok \in jwts : Verify(t, tok)

SpecKeys == Init /\ [][NextKeys]_vars

\* ---------------------------------------------------- claims: signing keys

\* C11: for every signing key k and access token signed with k, Verify
\* accepts the token only while k.status is active or inactive and
\* now < k.not_after; a token whose key is retired or past not_after never
\* verifies.
C11_VerifyOnlyWithUsableKey ==
    \A e \in verifyLog : e.status \in {"active", "inactive"} /\ e.live

\* C12: a key signs an access token for tenant T only if it belongs to T,
\* has status active and not_before <= now < not_after, and it is the newest
\* such key (after a rotation the new key's kid); when T has no such key,
\* IssueAccessToken fails.
C12_SignsWithNewestActiveKey ==
    /\ \A tok \in jwts : /\ tok.usable.tenant = tok.tid
                         /\ tok.usable.status = "active"
                         /\ tok.usable.inWindow
                         /\ tok.usable.newest
    /\ \A e \in issueLog : ~e.usable => ~e.ok

\* a token signed after a rotation (a second key generated, the first one
\* marked inactive) carries the kid of the second key, and IssueAccessToken
\* was called for a tenant without a usable key
C12_Witness ==
    /\ \E tok \in jwts :
          /\ tok.kid # FirstKid(tok.tid)
          /\ \E k \in signingKeys : /\ k.kid = FirstKid(tok.tid)
                                    /\ k.tenant = tok.tid
                                    /\ k.status = "inactive"
    /\ \E e \in issueLog : ~e.usable

\* C13: after any sequence of key generations for a tenant, at most one
\* signing key of that tenant has status active (generating a key makes the
\* previously active key inactive).
C13_AtMostOneActiveKey ==
    \A t \in Tenants :
        Cardinality({k \in signingKeys :
                        k.tenant = t /\ k.status = "active"}) <= 1

\* C14: issue/verify round trip: for a tenant with a usable active key,
\* IssueAccessToken (signing with JWTManager.Sign) produces a token, and a
\* token with the claims IssueAccessToken sets, signed by a key stored for
\* the tenant, is accepted by Verify for that tenant before exp.
C14_IssueVerifyRoundTrip ==
    /\ \A e \in issueLog : e.usable => e.ok
    /\ \A tok \in jwts :
          /\ tok.iss = IssuerOf(tok.tid)
          /\ tok.nbf <= now /\ now < tok.exp
          /\ GetByKID(tok.tid, tok.kid) # {}
          => VerifyError(tok.tid, tok) = ""

\* ---------------------------------------------------------------- SpecPkce
\* Authorize and the authorization_code grant of one client, one request at
\* a time, over the PKCE parameters and redirect URIs a request can carry
\* (within the lifetime of the codes)
Challenges == {NoHash, HashString("v1")}
Methods == {"S256", "plain"}
ResponseTypes == {"code", "token"}
PresentedVerifiers == Verifiers \cup {""}

NextPkce ==
    \/ \E c \in Clients, redirect \in Redirects, challenge \in Challenges,
          method \in Methods, sc \in Scopes, rt \in ResponseTypes :
          Authorize("tA", c, "u1", redirect, challenge, method, sc, rt)
    \/ \E c \in Clients, redirect \in Redirects, rt \in ResponseTypes :
          AuthorizeRejected("tA", c, redirect, HashString("v1"), "S256", rt)
    \/ \E code \in 1..(nextCode - 1), v \in PresentedVerifiers,
          redirect \in Redirects : ExchStart("p1", "tA", code, v, redirect)
    \/ GacSelect("p1")
    \/ GacUpdate("p1")
    \/ ExchIssue("p1")

SpecPkce == Init /\ [][NextPkce]_vars

\* ------------------------------------------------ claims: PKCE, redirects

\* C15: Authorize rejects every request whose code_challenge is empty or
\* whose code_challenge_method is not S256, and stores no code for it: every
\* stored authorization code has a non-empty pkce_challenge and pkce_method
\* S256.
C15_StoredCodesHavePkce ==
    /\ \A e \in authLog :
          e.challenge = NoHash \/ e.method # "S256" => e.err # ""
    /\ \A h \in DOMAIN oauthCodes :
          oauthCodes[h].challenge # NoHash /\ oauthCodes[h].method = "S256"

\* C16: an authorization_code exchange issues tokens only if
\* S256(code_verifier) equals the challenge stored with the code; with any
\* other verifier, an absent one included, no token is issued.
C16_TokensOnlyWithMatchingVerifier ==
    \A e \in exchLog : HashString(e.verifier) = e.challenge

\* C17: redirect URIs are matched exactly: Authorize stores a code only if
\* the presented redirect_uri is string-equal to a registered URI of the
\* client, a request with another URI (the registered one plus a trailing
\* slash) is answered "invalid redirect uri", and an exchange issues tokens
\* only if the presented redirect_uri is string-equal to the one stored
\* with the code.
C17_RedirectMatchedExactly ==
    /\ \A h \in DOMAIN oauthCodes :
          oauthCodes[h].redirect \in
              Row(GetByClientID(oauthCodes[h].tenant,
                                oauthCodes[h].client)).redirectURIs
    /\ \A e \in authLog :
          /\ GetByClientID(e.tenant, e.client) # {}
          /\ e.redirect \notin
                 Row(GetByClientID(e.tenant, e.client)).redirectURIs
          => e.err = "invalid redirect uri"
    /\ \A e \in exchLog : e.redirect = e.stored
    /\ \A p \in Procs :
          /\ Finished(p, "exchange")
          /\ HashString(loc[p].arg) \in DOMAIN oauthCodes
          /\ oauthCodes[HashString(loc[p].arg)].redirect # loc[p].redirect
          => res[p].err # ""

\* C17 witness: an Authorize request with the trailing-slash URI was
\* rejected, and an exchange that presented the trailing-slash URI for a
\* code stored with the registered one, with the right verifier, ended with
\* "invalid redirect uri"
C17_Witness ==
    /\ \E e \in authLog :
          e.redirect = "cb/" /\ e.err = "invalid redirect uri"
    /\ \E p \in Procs :
          /\ Finished(p, "exchange")
          /\ loc[p].redirect = "cb/"
          /\ res[p].err = "invalid redirect uri"
          /\ HashString(loc[p].arg) \in DOMAIN oauthCodes
          /\ oauthCodes[HashString(loc[p].arg)].redirect = "cb"

\* =========================================== refresh and client credentials

\* the scope values of a space-separated scope string
ScopeSet(sc) ==
    IF sc = "openid admin" THEN {"openid", "admin"}
    ELSE IF sc = "" THEN {}
    ELSE {sc}

\* oauth.Service.handleClientCredentials, the checks: the client row, then
\* ClientSecretHash nil or empty; req.ClientSecret is not read
ClientCredentialsError(t, c) ==
    IF GetByClientID(t, c) = {} THEN "client not found"
    ELSE IF Row(GetByClientID(t, c)).clientSecretHash = NoHash
    THEN "client secret required"
    ELSE ""

\* oauth.Service.handleClientCredentials: the checks, then
\* IssueAccessToken(tenant, "", req.ClientID, req.Scope); no refresh token
handleClientCredentials(p, t, c, secret, sc) ==
    /\ Idle(p)
    /\ calls < MaxCalls
    /\ calls' = calls + 1
    /\ pc' = [pc EXCEPT ![p] = "done"]
    /\ loc' = [loc EXCEPT ![p] =
                 [NoLoc EXCEPT !.op = "client_credentials", !.tenant = t,
                               !.client = c, !.scope = sc]]
    /\ IF ClientCredentialsError(t, c) # ""
       THEN /\ res' = [res EXCEPT ![p] = Err(ClientCredentialsError(t, c))]
            /\ UNCHANGED <<accessLog, issued>>
       ELSE \E signed \in SignOutcomes(t) :
            IF signed
            THEN /\ res' = [res EXCEPT ![p] = Ok(Nil)]
                 /\ issued' = issued \cup
                        {Event("access", t, "", "client_credentials")}
                 /\ accessLog' =
                       {Granted("client_credentials", "", c, sc, sc,
                                [user |-> "", client |-> c, scope |-> sc],
                                Row(GetByClientID(t, c)).clientSecretHash
                                    = SecretHash(secret))}
            ELSE /\ res' = [res EXCEPT ![p] = Err("issue access token")]
                 /\ UNCHANGED <<accessLog, issued>>
    /\ UNCHANGED <<now, rbacVars, domVars, httpLog, keyVars, authLog, exchLog, adminVars, sessVars,
                   codeVars, tokVars>>

\* --------------------------------------------------------------- SpecGrant
\* the refresh_token and client_credentials grants of tenant tA, one request
\* at a time, over the client, scope and secret a request can carry, up
\* to and past the expiry of the refresh tokens
GrantClients == {"web", "svc"}
GrantScopes == {"openid", "openid admin"}
Secrets == {"s3cret", "wrong", ""}

NextGrant ==
    \/ Advance(RefreshTTL + 1)
    \/ IssueRefreshToken("tA", "u1", "web", "openid")
    \/ \E tok \in 1..(nextTok - 1), c \in GrantClients, sc \in GrantScopes :
          RefStart("p1", "tA", tok, c, sc)
    \/ RotGet("p1")
    \/ RotRevoke("p1")
    \/ RotCreate("p1")
    \/ RefIssue("p1")
    \/ \E c \in GrantClients \cup {"unknown"}, secret \in Secrets,
          sc \in GrantScopes :
          handleClientCredentials("p1", "tA", c, secret, sc)

SpecGrant == Init /\ [][NextGrant]_vars

\* ------------------------------------------------------- claims: grants

\* C18: the access token a refresh_token grant returns is for the user, the
\* client and the scope recorded on the rotated refresh-token row, not for
\* values taken from the request.
C18_RefreshKeepsUserClientScope ==
    \A e \in accessLog :
        e.grant = "refresh_token" =>
            e.sub = e.user /\ e.aud = e.client /\ e.scope = e.rowScope

\* C19: scope never widens along a rotation chain: the scope of the access
\* token a refresh_token grant issues, and the scope in its response, is a
\* subset of the scope stored on the presented refresh token, whatever the
\* request asks for.
C19_ScopeNeverWidens ==
    \A e \in accessLog :
        e.grant = "refresh_token" =>
            /\ ScopeSet(e.scope) \subseteq ScopeSet(e.rowScope)
            /\ ScopeSet(e.respScope) \subseteq ScopeSet(e.rowScope)

\* C20: a client_credentials grant issues an access token only if the
\* client exists in the tenant, has a client_secret_hash and the presented
\* client_secret verifies against it; a public client is rejected.
C20_ClientCredentialsNeedSecret ==
    /\ \A e \in accessLog :
          e.grant = "client_credentials" =>
              /\ ClientCredentialsError("tA", e.aud) = ""
              /\ e.secretOK
    /\ \A p \in Procs :
          /\ Finished(p, "client_credentials")
          /\ ClientCredentialsError(loc[p].tenant, loc[p].client) # ""
          => res[p].err # ""

\* ------------------------------------------------ claims: expiry boundaries

\* C21: GetAndConsume of an unused code lets the call through only while
\* now < expires_at; at exactly now = expires_at it answers "code expired"
\* and leaves used_at null.
C21_CodeExpiredAtExpiresAt ==
    [][\A p \in Procs :
          pc[p] = "gac_select" /\ pc'[p] = "gac_update"
              => now < Row(loc'[p].snap).expiresAt]_vars

\* C22: Validate of an unrevoked session passes the expiry check only while
\* now < created_at + session_ttl; from exactly created_at + session_ttl on
\* it answers "session expired" and does not write last_seen_at.  (The
\* snapshot of a request that passed the check carries the clock reading in
\* lastSeenAt.)
C22_SessionExpiredAtTTL ==
    \A p \in Procs :
        loc[p].op = "validate" /\ pc[p] = "val_update" =>
            Row(loc[p].snap).lastSeenAt
                < Row(loc[p].snap).createdAt + SessionTTL

\* C23: RotateRefreshToken lets an unrevoked token through the expiry check
\* only while now < expires_at; from exactly expires_at on it fails with
\* "refresh token expired", the old row is not revoked and no new row is
\* inserted.
C23_RotateExpiredAtExpiresAt ==
    [][\A p \in Procs :
          pc[p] = "rot_get" /\ pc'[p] = "rot_revoke"
              => now < Row(loc'[p].snap).expiresAt]_vars

\* ========================================================= host resolution
\* Hosts are strings, modelled as sequences of one-character strings.

MaxHostLen == 4

\* the -base-domain flag; one label stands for "auth.example.com"
BaseDomain == <<"b">>

Letters == {"a", "b", "s", "A"}
Digits == {"8"}

\* unicode.ToLower on the characters used
LowerChar(c) == IF c = "A" THEN "a" ELSE c
\* strings.ToLower
ToLower(s) == [i \in 1..Len(s) |-> LowerChar(s[i])]

\* strings.Index, counted from 1; 0 when sub does not occur
Index(s, sub) ==
    LET at == {i \in 1..(Len(s) - Len(sub) + 1) :
                  SubSeq(s, i, i + Len(sub) - 1) = sub}
    IN IF at = {} THEN 0 ELSE CHOOSE i \in at : \A j \in at : i <= j
\* strings.Contains
Contains(s, sub) == Index(s, sub) # 0
\* strings.HasSuffix
HasSuffix(s, suffix) ==
    /\ Len(s) >= Len(suffix)
    /\ SubSeq(s, Len(s) - Len(suffix) + 1, Len(s)) = suffix
\* strings.TrimSuffix
TrimSuffix(s, suffix) ==
    IF HasSuffix(s, suffix) THEN SubSeq(s, 1, Len(s) - Len(suffix)) ELSE s
\* strings.Split(s, ".")[0]
FirstPart(s) ==
    IF Contains(s, <<".">>) THEN SubSeq(s, 1, Index(s, <<".">>) - 1) ELSE s

\* s[:i] for the 1-based position i of a separator, s when there is none
Before(s, i) == IF i = 0 THEN s ELSE SubSeq(s, 1, i - 1)

\* net/url.validOptionalPort, for the authority and the position of its colon
validOptionalPort(authority, colon) ==
    colon = 0 \/ \A i \in (colon + 1)..Len(authority) : authority[i] \in Digits
\* net/url.parseAuthority without userinfo: ok = FALSE is a parse error
parseAuthority(authority) ==
    IF validOptionalPort(authority, Index(authority, <<":">>))
    THEN [ok |-> TRUE, host |-> authority]
    ELSE [ok |-> FALSE, host |-> <<>>]
\* net/url.parse on what follows "//": the authority runs to the next "/"
parseSlashes(after) == parseAuthority(Before(after, Index(after, <<"/">>)))
\* net/url.parse on what follows the scheme: without "//" the URL is opaque
\* and has no host
parseRest(rest) ==
    IF SubSeq(rest, 1, 2) # <<"/", "/">> THEN [ok |-> TRUE, host |-> <<>>]
    ELSE parseSlashes(SubSeq(rest, 3, Len(rest)))
\* net/url.getScheme: the scheme runs to the first colon and starts with a
\* letter
getScheme(raw, colon) ==
    IF colon = 1 \/ raw[1] \notin Letters THEN [ok |-> FALSE, host |-> <<>>]
    ELSE parseRest(SubSeq(raw, colon + 1, Len(raw)))
\* net/url.Parse, for a string that holds "://" and has no "/" before its
\* first colon, no "?", "#", "@" or "["
urlParse(raw) == getScheme(raw, Index(raw, <<":">>))

\* normalizeHost, first step: the host of a URL when the string parses as one
urlHost(u, host) == IF u.ok THEN u.host ELSE host
\* normalizeHost, last steps: cut at the first colon, lower the case
stripPort(host) == ToLower(Before(host, Index(host, <<":">>)))
\* normalizeHost: the host of a URL, without the port, in lower case
normalizeHost(host) ==
    stripPort(IF Contains(host, <<":", "/", "/">>)
              THEN urlHost(urlParse(host), host) ELSE host)

\* extractSlug on the normalized host and base domain
slugOf(host, baseDomain) ==
    IF ~HasSuffix(host, baseDomain) THEN <<>>
    ELSE FirstPart(TrimSuffix(TrimSuffix(host, baseDomain), <<".">>))
\* extractSlug: the leftmost label of what precedes baseDomain
extractSlug(host, baseDomain) ==
    slugOf(normalizeHost(host), normalizeHost(baseDomain))

\* table tenants: the slug of each tenant
TenantRows == {[id |-> "tA", slug |-> <<"a">>],
               [id |-> "tB", slug |-> <<"a", "a">>]}

\* what ResolveTenant returns
Resolved(t) == [err |-> "", tenant |-> t]
ResolveErr(e) == [err |-> e, tenant |-> ""]

\* tenantStore.GetByID
TenantGetByID(id) ==
    IF \E t \in TenantRows : t.id = id THEN Resolved(id)
    ELSE ResolveErr("record not found")
\* tenantStore.GetBySlug
GetBySlug(slug) ==
    IF \E t \in TenantRows : t.slug = slug
    THEN Resolved((CHOOSE t \in TenantRows : t.slug = slug).id)
    ELSE ResolveErr("record not found")
\* domainStore.GetByDomain: domain is a unique index
GetByDomain(rows, domain) == {d \in rows : d.domain = domain}

\* the check ResolveTenant makes on the row it found
DomainAlwaysResolves(d) == TRUE
DomainResolves(d) == d.verifiedAt # Nil

\* ResolveTenant after the two lookups: the row found, the slug extracted
resolveFound(found, slug) ==
    IF found # {}
    THEN IF ~DomainResolves(Row(found))
         THEN ResolveErr("domain not verified")
         ELSE TenantGetByID(Row(found).tenantID)
    ELSE IF slug # <<>> THEN GetBySlug(slug)
    ELSE ResolveErr("tenant not found for host")
\* ResolveTenant on the normalized host
resolveHost(rows, host) ==
    resolveFound(GetByDomain(rows, host), extractSlug(host, BaseDomain))
\* HostResolver.ResolveTenant as a function of the table and the host
Resolve(rows, host) == resolveHost(rows, normalizeHost(host))

\* the hosts presented: an optional scheme, a body, an optional port
Schemes == {<<>>, <<"s", ":", "/", "/">>}
Ports == {<<>>, <<":", "8">>}
BodyChars == {"a", "A", "b", "."}
Bodies == UNION {[1..n -> BodyChars] : n \in 0..MaxHostLen}
\* the domains tenants register: a custom domain, and the slug host of tA
DomainNames == {<<"a">>, <<"a", ".", "b">>}

\* domainStore.Create: the unique index on domain rejects a second row; the
\* row's uuid is written as the name it was made for
DomainCreate(t, domain) ==
    /\ GetByDomain(tenantDomains, domain) = {}
    /\ tenantDomains' = tenantDomains \cup
           {[id |-> domain, tenantID |-> t, domain |-> domain,
             verifiedAt |-> Nil]}
    /\ UNCHANGED <<now, rbacVars, reqHost, resolveLog, httpLog, keyVars, logVars, adminVars,
                   sessVars, codeVars, tokVars, pc, loc, res, calls, issued>>

\* domainStore.MarkVerified
MarkVerified(t, id) ==
    /\ \E d \in tenantDomains : d.tenantID = t /\ d.id = id
    /\ tenantDomains' = {IF d.tenantID = t /\ d.id = id
                         THEN [d EXCEPT !.verifiedAt = now] ELSE d :
                         d \in tenantDomains}
    /\ UNCHANGED <<now, rbacVars, reqHost, resolveLog, httpLog, keyVars, logVars,
                   adminVars, sessVars, codeVars, tokVars, pc, loc, res,
                   calls, issued>>

\* domainStore.Delete
DomainDelete(t, id) ==
    /\ \E d \in tenantDomains : d.tenantID = t /\ d.id = id
    /\ tenantDomains' = {d \in tenantDomains : ~(d.tenantID = t /\ d.id = id)}
    /\ UNCHANGED <<now, rbacVars, reqHost, resolveLog, httpLog, keyVars, logVars,
                   adminVars, sessVars, codeVars, tokVars, pc, loc, res,
                   calls, issued>>

\* the string a host record stands for
HostString(h) == h.scheme \o h.body \o h.port

\* HostResolver.ResolveTenant, asked about reqHost
ResolveTenant ==
    /\ resolveLog' = {[found |-> GetByDomain(tenantDomains,
                                   normalizeHost(HostString(reqHost))),
                       out |-> Resolve(tenantDomains, HostString(reqHost))]}
    /\ UNCHANGED <<now, rbacVars, tenantDomains, reqHost, httpLog, keyVars, logVars,
                   adminVars, sessVars, codeVars, tokVars, pc, loc, res,
                   calls, issued>>

NextResolve ==
    \/ \E t \in Tenants, domain \in DomainNames : DomainCreate(t, domain)
    \/ \E t \in Tenants, id \in DomainNames : MarkVerified(t, id)
    \/ \E t \in Tenants, id \in DomainNames : DomainDelete(t, id)
    \/ ResolveTenant

\* the resolver is asked about any one host
InitResolve ==
    /\ InitStore
    /\ \E scheme \in Schemes, body \in Bodies, port \in Ports :
          reqHost = [scheme |-> scheme, body |-> body, port |-> port]

SpecResolve == InitResolve /\ [][NextResolve]_vars

\* ------------------------------------------------ claims: host resolution

\* the slug subdomain of base_domain of tenant t
SlugHost(t) ==
    (CHOOSE r \in TenantRows : r.id = t).slug \o <<".">> \o BaseDomain

\* the last call was about the slug host of tenant t, however written
AskedSlugHost(t) == normalizeHost(HostString(reqHost)) = SlugHost(t)

\* C24: an unverified custom domain never resolves: a host whose normalized
\* form matches a TenantDomain row with verified_at = null is answered
\* "domain not verified" and no tenant; and a tenant, the owner of an
\* unverified domain included, is still resolved by its slug subdomain of
\* base_domain, provided no TenantDomain row is stored for that slug host
\* itself.
C24_UnverifiedDomainNeverResolves ==
    \A e \in resolveLog :
        /\ (\E d \in e.found : d.verifiedAt = Nil)
               => e.out = ResolveErr("domain not verified")
        /\ \A t \in Tenants :
               AskedSlugHost(t) /\ e.found = {} => e.out = Resolved(t)

\* the host matched an unverified row, was written with a scheme, a port or
\* a capital, and was refused
C24_Witness ==
    \E e \in resolveLog :
        /\ \E d \in e.found : d.verifiedAt = Nil
        /\ HostString(reqHost) # normalizeHost(HostString(reqHost))
        /\ e.out = ResolveErr("domain not verified")

\* C24 as stated: a call about the slug host of a tenant that owns an
\* unverified domain answers with that tenant, whatever the table holds
C24_OwnerAlwaysResolvesBySlug ==
    [][\A e \in resolveLog' :
          /\ (\E d \in e.found : d.verifiedAt = Nil)
                 => e.out = ResolveErr("domain not verified")
          /\ \A d \in tenantDomains :
                 /\ resolveLog' # resolveLog
                 /\ d.verifiedAt = Nil
                 /\ AskedSlugHost(d.tenantID)
                 => e.out = Resolved(d.tenantID)]_vars

\* a host with an empty label: nothing at all, a leading dot, two dots in a
\* row
Malformed(body) ==
    body = <<>> \/ body[1] = "." \/ Contains(body, <<".", ".">>)

\* the failures that say no tenant is known for the host
NotFound == {ResolveErr("tenant not found for host"),
             ResolveErr("record not found")}

\* C25: for a fixed table, ResolveTenant gives two hosts that differ only in
\* letter case, an attached port or a scheme prefix the same answer, and
\* answers an empty or malformed host with a not-found failure.
C25_SameAnswerAndFailClosed ==
    /\ \A scheme \in Schemes, port \in Ports, body \in Bodies :
          ToLower(body) = ToLower(reqHost.body) =>
              Resolve(tenantDomains, scheme \o body \o port)
                  = Resolve(tenantDomains, HostString(reqHost))
    /\ \A e \in resolveLog : Malformed(reqHost.body) => e.out \in NotFound

\* ------------------------------------------------ claims: session updates

\* C26: the stored last_seen_at of a session never decreases, whatever the
\* interleaving of concurrent Validate calls, and a Validate whose
\* last_seen_at write failed still succeeds.
C26_LastSeenNeverDecreases ==
    [][/\ \A id \in DOMAIN sessions \cap DOMAIN sessions' :
             sessions'[id].lastSeenAt >= sessions[id].lastSeenAt
       /\ \A p \in Procs :
             pc[p] = "val_update" /\ pc'[p] = "done" => res'[p].err = ""]_vars

\* C27: Revoke is idempotent: a second Revoke of a session returns no error
\* and leaves the session as the first left it, revoked with the same
\* revoked_at.  (Revoke returns the store's error, and the update statement
\* has none to return for a row that is already revoked.)
C27_RevokeIdempotent ==
    [][\A id \in DOMAIN sessions \cap DOMAIN sessions' :
          sessions[id].revokedAt # Nil =>
              sessions'[id].revokedAt = sessions[id].revokedAt]_vars

\* ========================================================= token endpoints
\* The revocation and introspection endpoints of OIDCHandlers.

StatusOK == 200
StatusBadRequest == 400
StatusMethodNotAllowed == 405
StatusInternalServerError == 500

HttpMethods == {"POST", "GET"}

\* what both handlers check before they read the token: the method, the
\* tenant the middleware resolved, the form
EndpointError(method, tenantOK, formOK) ==
    IF method # "POST" THEN StatusMethodNotAllowed
    ELSE IF ~tenantOK THEN StatusBadRequest
    ELSE IF ~formOK THEN StatusBadRequest
    ELSE StatusOK

\* the status RevokeHandler writes after oauthService.Revoke returned
RevokeStatusFromError(failed) ==
    IF failed THEN StatusInternalServerError ELSE StatusOK
RevokeStatus(failed) == StatusOK

\* core.IntrospectResponse: the fields present in the JSON, and their values
Inactive == [active |-> FALSE, present |-> {}, sub |-> "", client |-> "",
             tid |-> "", scope |-> "", exp |-> Nil]
\* no JSON body (an error answer, the revocation answer)
NoBody == Inactive

\* oauth.Service.Introspect: the response
IntrospectResponse(t, tok) ==
    LET found == RtGetByHash(t, HashString(tok))
        rt == Row(found) IN
    IF found = {} THEN Inactive
    ELSE IF rt.revokedAt # Nil \/ now > rt.expiresAt THEN Inactive
    ELSE [active |-> TRUE,
          present |-> {"sub", "client_id", "tid", "scope", "exp"},
          sub |-> rt.user, client |-> rt.client, tid |-> rt.tenant,
          scope |-> rt.scope, exp |-> rt.expiresAt]

\* the refresh-token rows with the hash of tok, of whatever tenant
RtRows(tok) ==
    {refreshTokens[h] : h \in DOMAIN refreshTokens \cap {HashString(tok)}}
\* the state of the token as tenant t presents it: a row of t that is
\* neither revoked nor past expires_at; a row of another tenant
RtLive(t, tok) ==
    \E r \in RtRows(tok) :
        r.tenant = t /\ r.revokedAt = Nil /\ now < r.expiresAt
RtForeign(t, tok) == \E r \in RtRows(tok) : r.tenant # t

\* what httpLog keeps of a request and its answer
Answer(handler, method, tenantOK, formOK, t, tok, failed, status, body) ==
    [handler |-> handler, method |-> method, tenantOK |-> tenantOK,
     formOK |-> formOK, tenant |-> t, token |-> tok, failed |-> failed,
     status |-> status, body |-> body, live |-> RtLive(t, tok),
     foreign |-> RtForeign(t, tok)]

\* OIDCHandlers.RevokeHandler; the store call may fail
RevokeHandler(method, tenantOK, formOK, t, tok) ==
    LET early == EndpointError(method, tenantOK, formOK) IN
    /\ \E failed \in BOOLEAN :
          /\ refreshTokens' =
                 IF early # StatusOK \/ failed THEN refreshTokens
                 ELSE RtStoreRevoke(refreshTokens, t, HashString(tok))
          /\ revokeLog' =
                 IF early # StatusOK \/ failed THEN revokeLog
                 ELSE revokeLog \cup RtRevokeEffect(t, HashString(tok))
          /\ httpLog' = {Answer("revoke", method, tenantOK, formOK, t, tok,
                                early = StatusOK /\ failed,
                                IF early # StatusOK THEN early
                                ELSE RevokeStatus(failed), NoBody)}
    /\ UNCHANGED <<now, rbacVars, domVars, keyVars, logVars, adminVars, sessVars,
                   codeVars, nextTok, rtParent, replayed, disclosed, pc, loc,
                   res, calls, issued>>

\* OIDCHandlers.IntrospectHandler
IntrospectHandler(method, tenantOK, formOK, t, tok) ==
    LET early == EndpointError(method, tenantOK, formOK) IN
    /\ httpLog' = {Answer("introspect", method, tenantOK, formOK, t, tok,
                          FALSE, early,
                          IF early # StatusOK THEN NoBody
                          ELSE IntrospectResponse(t, tok))}
    /\ UNCHANGED <<now, rbacVars, domVars, keyVars, logVars, adminVars, sessVars,
                   codeVars, tokVars, pc, loc, res, calls, issued>>

NextEndpoint ==
    \/ Advance(RefreshTTL + 1)
    \/ \E u \in RefreshUsers, c \in Clients, sc \in Scopes :
          IssueRefreshToken(UserTenant(u), u, c, sc)
    \/ \E t \in Tenants, tok \in 1..nextTok :
          RevokeHandler("POST", TRUE, TRUE, t, tok)
    \/ \E method \in HttpMethods, tenantOK \in BOOLEAN, formOK \in BOOLEAN :
          RevokeHandler(method, tenantOK, formOK, "tA", 1)
    \/ \E t \in Tenants, tok \in 1..nextTok :
          IntrospectHandler("POST", TRUE, TRUE, t, tok)
    \/ \E method \in HttpMethods, tenantOK \in BOOLEAN, formOK \in BOOLEAN :
          IntrospectHandler(method, tenantOK, formOK, "tA", 1)

SpecEndpoint == Init /\ [][NextEndpoint]_vars

\* ------------------------------------------------ claims: token endpoints

\* C28: Introspect answers active = true exactly when a refresh-token row
\* for the token's hash exists in the caller's tenant, is not revoked and is
\* not expired (now < expires_at); in every other case the answer is
\* {active: false} and carries no other field.
C28_ActiveIffLiveRow ==
    \A e \in httpLog :
        e.handler = "introspect" /\ e.status = StatusOK =>
            /\ e.body.active <=> e.live
            /\ ~e.body.active => e.body = Inactive

\* C29: the revocation endpoint's answer does not depend on the token: a
\* POST with a resolved tenant and a form that parses is answered 200 with
\* no body, whether the token is unknown, revoked, expired, of another
\* tenant or just revoked, and whether or not the store call failed.
C29_RevokeAlwaysOK ==
    \A e \in httpLog :
        e.handler = "revoke" /\ e.method = "POST" /\ e.tenantOK /\ e.formOK
            => e.status = StatusOK /\ e.body = NoBody

\* the store call failed for a token of another tenant, and the answer was
\* 200
C29_Witness ==
    \E e \in httpLog :
        /\ e.handler = "revoke" /\ e.method = "POST" /\ e.tenantOK /\ e.formOK
        /\ e.failed
        /\ e.foreign
        /\ e.status = StatusOK

\* C29 as stated: every POST with a resolved tenant is answered 200
C29_EveryPostOK ==
    \A e \in httpLog :
        e.handler = "revoke" /\ e.method = "POST" /\ e.tenantOK
            => e.status = StatusOK

\* ================================================================ SpecSweep
\* sessions, refresh tokens and codes of one tenant, created, used and
\* revoked while the clock runs past every lifetime, and the sweep

NextSweep ==
    \/ Advance(SweepSessionAge + 1)
    \/ SessCreate("tA", "u1", "web")
    \/ \E id \in 1..(nextSess - 1) : SessRevoke("tA", id)
    \/ IssueRefreshToken("tA", "u1", "web", "openid")
    \/ \E tok \in 1..(nextTok - 1) : OAuthRevoke("tA", tok)
    \/ Authorize("tA", "web", "u1", "cb", HashString("v1"), "S256", "openid",
                 "code")
    \/ \E code \in 1..(nextCode - 1) : ExchStart("p1", "tA", code, "v1", "cb")
    \/ GacSelect("p1")
    \/ GacUpdate("p1")
    \/ ExchIssue("p1")
    \/ CleanupExpired

SpecSweep == Init /\ [][NextSweep]_vars

\* ---------------------------------------------------------- claims: sweep

\* the rows of tbl the sweep is to keep: those not in Dead
Kept(tbl, Dead) == DOMAIN tbl \ Dead

\* C30: a sweep at time now deletes exactly the codes that are used or have
\* expires_at < now, the refresh tokens that are revoked or have
\* expires_at < now, and the sessions that are revoked or have
\* created_at + session_ttl < now; every other row survives, and a second
\* sweep at the same now changes nothing.
C30_SweepDeletesExactly ==
    [][CleanupExpired =>
          /\ DOMAIN oauthCodes' =
                 Kept(oauthCodes, {h \in DOMAIN oauthCodes :
                     \/ oauthCodes[h].usedAt # Nil
                     \/ oauthCodes[h].expiresAt < now})
          /\ DOMAIN refreshTokens' =
                 Kept(refreshTokens, {h \in DOMAIN refreshTokens :
                     \/ refreshTokens[h].revokedAt # Nil
                     \/ refreshTokens[h].expiresAt < now})
          /\ DOMAIN sessions' =
                 Kept(sessions, {id \in DOMAIN sessions :
                     \/ sessions[id].revokedAt # Nil
                     \/ sessions[id].createdAt + SessionTTL < now})
          /\ SweepCodes(oauthCodes', now) = oauthCodes'
          /\ SweepTokens(refreshTokens', now) = refreshTokens'
          /\ SweepSessions(sessions', now) = sessions']_vars

\* =============================================================== SpecRotate
\* one rotation at a time against explicit revocation, the sweep and the
\* clock

NextRotate ==
    \/ Tick
    \/ IssueRefreshToken("tA", "u1", "web", "openid")
    \/ \E tok \in 1..(nextTok - 1) :
          RefStart("p1", "tA", tok, "web", "openid")
    \/ RotGet("p1")
    \/ RotRevoke("p1")
    \/ RotCreate("p1")
    \/ RefIssue("p1")
    \/ \E tok \in 1..(nextTok - 1) : OAuthRevoke("tA", tok)
    \/ CleanupExpired

SpecRotate == Init /\ [][NextRotate]_vars

\* -------------------------------------------------------- claims: rotation

\* the step in which the rotation of request p succeeds: Create has stored
\* the new row and RotateRefreshToken returns the new plaintext
RotationSucceeds(p) == pc[p] = "rot_create" /\ pc'[p] = "ref_issue"

\* what a successful rotation of old into new leaves, whatever became of the
\* old row
RotationInserts(p, old, new) ==
    /\ new # old
    /\ HashString(new) \notin DOMAIN refreshTokens
    /\ DOMAIN refreshTokens' = DOMAIN refreshTokens \cup {HashString(new)}
    /\ refreshTokens'[HashString(new)] =
           [hash |-> HashString(new),
            tenant |-> Row(loc[p].snap).tenant,
            client |-> Row(loc[p].snap).client,
            user |-> Row(loc[p].snap).user,
            scope |-> Row(loc[p].snap).scope,
            createdAt |-> now, expiresAt |-> now + RefreshTTL,
            revokedAt |-> Nil, rotatedFrom |-> HashString(old)]

SessRevokeError(failed) == IF failed THEN "db" ELSE ""

SessOwned(t, id) == id \in DOMAIN sessions /\ sessions[id].tenant = t

\* sessions.Service.Revoke; the store call may fail
ServiceRevoke(t, id) ==
    \E failed \in BOOLEAN :
       /\ sessions' = IF failed THEN sessions
                      ELSE SessStoreRevoke(sessions, t, id)
       /\ sessRevoked' = IF ~failed /\ SessOwned(t, id)
                         THEN sessRevoked \cup {<<t, id>>} ELSE sessRevoked
       /\ httpLog' = {[handler |-> "session_revoke", tenant |-> t,
                       session |-> id, owned |-> SessOwned(t, id),
                       failed |-> failed, err |-> SessRevokeError(failed),
                       changed |-> (sessions' # sessions)]}
       /\ UNCHANGED <<now, rbacVars, domVars, keyVars, logVars, adminVars, nextSess,
                      sessOwner, codeVars, tokVars, pc, loc, res, calls,
                      issued>>

NextRevoke ==
    \/ Tick
    \/ \E u \in Users, c \in Clients : SessCreate(UserTenant(u), u, c)
    \/ \E t \in Tenants, id \in 1..(MaxSessions + 1) : ServiceRevoke(t, id)
    \/ \E p \in Procs, t \in Tenants, id \in 1..(nextSess - 1) :
          ValStart(p, t, id)
    \/ \E p \in Procs : ValGet(p)
    \/ \E p \in Procs : ValUpdate(p)

SpecRevoke == Init /\ [][NextRevoke]_vars

\* C32: Revoke(tenant B, s) for a session s that belongs to another tenant, or
\* that does not exist, returns an error and leaves every session unchanged.
C32_ForeignRevokeFails ==
    \A a \in httpLog :
       a.handler = "session_revoke" /\ ~a.owned => a.err # "" /\ ~a.changed

\* ========================================================= code consumption
\* An exchange that fails after GetAndConsume, and the exchanges that follow
\* it; the sweep runs in between.

NextConsume ==
    \/ Authorize("tA", "web", "u1", "cb", HashString("v1"), "S256", "openid",
                 "code")
    \/ \E p \in Procs, code \in 1..(nextCode - 1), v \in Verifiers,
          redirect \in Redirects : ExchStart(p, "tA", code, v, redirect)
    \/ \E p \in Procs : GacSelect(p)
    \/ \E p \in Procs : GacUpdate(p)
    \/ \E p \in Procs : ExchIssue(p)
    \/ CleanupExpired

SpecConsume == Init /\ [][NextConsume]_vars

\* the exchange p ends at the PKCE or the redirect test
FailsVerification(p) ==
    /\ pc[p] = "exch_issue" /\ pc'[p] = "done"
    /\ res'[p].err \in {"invalid code verifier", "invalid redirect uri"}

\* the exchange p, which began after a consumption of its code, is answered
\* by GetAndConsume
LateAnswered(p) == pc[p] = "gac_select" /\ loc[p].late

\* C33: code consumption precedes the PKCE and redirect tests: an exchange
\* that fails with a verifier or redirect mismatch has consumed the code (its
\* row, while it is stored, has used_at set), and every exchange begun after
\* that fails in GetAndConsume: with "code already used" while the row is
\* stored, with "record not found" once the sweep has deleted the used row.
C33_ConsumedBeforeVerification ==
    [][\A p \in Procs :
          /\ FailsVerification(p) =>
                /\ consumeOK[loc[p].arg] > 0
                /\ HashString(loc[p].arg) \in DOMAIN oauthCodes' =>
                       oauthCodes'[HashString(loc[p].arg)].usedAt # Nil
          /\ LateAnswered(p) /\ pc'[p] # pc[p] =>
                /\ pc'[p] = "done"
                /\ res'[p].err =
                       IF HashString(loc[p].arg) \in DOMAIN oauthCodes
                       THEN "code already used" ELSE "record not found"]_vars

\* an exchange failed at the PKCE test, and an exchange of the same code begun
\* after the consumption, with the right verifier and redirect URI, was
\* refused as already used
C33_Witness ==
    /\ Finished("p1", "exchange") /\ Finished("p2", "exchange")
    /\ loc["p1"].arg = loc["p2"].arg
    /\ res["p1"].err = "invalid code verifier" /\ ~loc["p1"].late
    /\ loc["p2"].late /\ loc["p2"].verifier = "v1" /\ loc["p2"].redirect = "cb"
    /\ res["p2"].err = "code already used"
    /\ nextTok = 1

\* C33 as stated: after the failed exchange every later exchange of the code
\* with the correct verifier and redirect URI fails with "code already used"
C33_LaterExchangeAlreadyUsed ==
    \A p, q \in Procs :
       /\ Finished(q, "exchange") /\ ~loc[q].late
       /\ res[q].err \in {"invalid code verifier", "invalid redirect uri"}
       /\ Finished(p, "exchange") /\ loc[p].late /\ loc[p].arg = loc[q].arg
       /\ loc[p].verifier = "v1" /\ loc[p].redirect = "cb"
       /\ nextTok = 1
       => res[p].err = "code already used"

\* --------------------------------------------- claims: refresh token states

\* C34: the states Rotated, Revoked and Expired of a refresh-token row are
\* terminal: a revoked_at once set is never cleared or changed, and an
\* expired row never changes (Revoke of an expired row does not revoke it).
C34_TerminalStates ==
    [][\A h \in DOMAIN refreshTokens \cap DOMAIN refreshTokens' :
          /\ refreshTokens[h].revokedAt # Nil =>
                 refreshTokens'[h].revokedAt = refreshTokens[h].revokedAt
          /\ now > refreshTokens[h].expiresAt =>
                 refreshTokens'[h] = refreshTokens[h]]_vars

\* ====================================================== authorize endpoint
\* OIDCHandlers.AuthorizeHandler: the request of oauth.Service.Authorize is
\* filled from the query string, user_id included.

\* what a caller may put in the user_id parameter; "" is an absent parameter
QueryUserIDs == Users \cup {""}

AuthorizeHandler(t, c, redirect, challenge, method, sc, userID) ==
    Authorize(t, c, userID, redirect, challenge, method, sc, "code")

NextAuthorize ==
    \/ Tick
    \/ \E t \in Tenants, c \in Clients, sc \in Scopes, userID \in QueryUserIDs :
          AuthorizeHandler(t, c, "cb", HashString("v1"), "S256", sc, userID)
    \/ \E t \in Tenants, e \in Emails, pw \in Passwords, c \in Clients,
          sc \in Scopes :
          handleLoginSubmit(t, e, pw, c, "cb", HashString("v1"), sc)
    \/ \E p \in Procs, t \in Tenants, code \in 1..(nextCode - 1),
          v \in Verifiers : ExchStart(p, t, code, v, "cb")
    \/ \E p \in Procs : GacSelect(p)
    \/ \E p \in Procs : GacUpdate(p)
    \/ \E p \in Procs : ExchIssue(p)

SpecAuthorize == Init /\ [][NextAuthorize]_vars

UserPassword(u) == IF u = "u1" THEN "hunter2" ELSE "password123"

LoginPasswords == Passwords \cup {"hunter2"}

\* PasswordHasher.Hash: the argon2id encoding of the password
PasswordHash(password) == <<"argon2id", password>>

\* user_passwords.password_hash of the user
StoredHash(u) == PasswordHash(UserPassword(u))

\* PasswordHasher.Verify: the hash of the password under the parameters and
\* salt of encodedHash, compared with the hash in encodedHash
PasswordVerify(password, encodedHash) ==
    /\ Len(encodedHash) = 2 /\ encodedHash[1] = "argon2id"
    /\ password = encodedHash[2]

NextLogin ==
    \/ Tick
    \/ \E t \in Tenants, e \in Emails, pw \in LoginPasswords :
          handleLoginSubmit(t, e, pw, "web", "cb", HashString("v1"), "openid")
    \/ \E p \in Procs, t \in Tenants, code \in 1..(nextCode - 1),
          v \in Verifiers : ExchStart(p, t, code, v, "cb")
    \/ \E p \in Procs : GacSelect(p)
    \/ \E p \in Procs : GacUpdate(p)
    \/ \E p \in Procs : ExchIssue(p)

SpecLogin == Init /\ [][NextLogin]_vars

\* C36: handleLoginSubmit proceeds to Authorize only if the presented
\* password verifies against the stored password hash of the user found by
\* (tenant, email).
C36_LoginVerifiesStoredHash ==
    [][\A t \in Tenants, e \in Emails, pw \in LoginPasswords :
          handleLoginSubmit(t, e, pw, "web", "cb", HashString("v1"), "openid")
          => PasswordVerify(pw, StoredHash(Row(GetByEmail(t, e))))]_vars

\* ===================================================================== rbac
\* rbac.Service: the table rbac_tuples and the casbin enforcer it loads.

\* core.RbacTuple: a grouping row g, user, role, domain
Grouping(t, user, role, domain) ==
    [tenant |-> t, type |-> "g", v0 |-> user, v1 |-> role, v2 |-> domain,
     v3 |-> ""]

\* core.RbacTuple: a policy row p, sub, dom, obj, act
Permission(t, sub, domain, obj, act) ==
    [tenant |-> t, type |-> "p", v0 |-> sub, v1 |-> domain, v2 |-> obj,
     v3 |-> act]

\* the rows the administrators store: in each tenant the binding of user u1
\* to the role admin and the permission of the role admin to read doc, the
\* domain being the tenant id
TupleInputs ==
    {Grouping(t, UserSubject("u1"), "role:admin", t) : t \in Tenants} \cup
    {Permission(t, "role:admin", t, "doc", "read") : t \in Tenants}

\* rbac.Service.AddPolicy
AddPolicy(t, policy) ==
    /\ policy.tenant = t
    /\ policy \notin rbacTuples
    /\ rbacTuples' = rbacTuples \cup {policy}
    /\ UNCHANGED <<now, enforcer, enfCalls, domVars, httpLog, keyVars,
                   logVars, adminVars, sessVars, codeVars, tokVars, pc, loc,
                   res, calls, issued>>

\* rbac.Service.RemovePolicy: Delete(id = ? AND tenant_id = ?)
RemovePolicy(t, policy) ==
    /\ policy \in rbacTuples
    /\ policy.tenant = t
    /\ rbacTuples' = rbacTuples \ {policy}
    /\ UNCHANGED <<now, enforcer, enfCalls, domVars, httpLog, keyVars,
                   logVars, adminVars, sessVars, codeVars, tokVars, pc, loc,
                   res, calls, issued>>

\* loadPolicies, one row: enforcer.AddPolicy(v0, v1, v2, v3) for a row p,
\* enforcer.AddGroupingPolicy(v0, v1, v2) for a row g
AddRow(policy, r) ==
    IF r.type = "p"
    THEN [policy EXCEPT !.p = @ \cup {<<r.v0, r.v1, r.v2, r.v3>>}]
    ELSE IF r.type = "g"
    THEN [policy EXCEPT !.g = @ \cup {<<r.v0, r.v1, r.v2>>}]
    ELSE policy

\* loadPolicies run to its end on the rows it read
LoadedPolicy(rows) ==
    [p |-> {<<r.v0, r.v1, r.v2, r.v3>> : r \in {x \in rows : x.type = "p"}},
     g |-> {<<r.v0, r.v1, r.v2>> : r \in {x \in rows : x.type = "g"}}]

\* the role manager's HasLink(a, b, dom): a is b, or a grouping rule of the
\* domain leads from a to a name that has the link
RECURSIVE HasLinkFrom(_, _, _, _, _)
HasLinkFrom(g, a, b, dom, seen) ==
    \/ a = b
    \/ \E rule \in g :
          /\ rule[1] = a /\ rule[3] = dom /\ rule[2] \notin seen
          /\ HasLinkFrom(g, rule[2], b, dom, seen \cup {rule[2]})

HasLink(g, a, b, dom) == HasLinkFrom(g, a, b, dom, {a})

\* casbin Enforce under the model of NewService:
\* m = g(r.sub, p.sub, r.dom) && r.dom == p.dom && r.obj == p.obj &&
\*     r.act == p.act, e = some(where (p.eft == allow))
CasbinEnforce(policy, sub, dom, obj, act) ==
    \E rule \in policy.p :
       /\ HasLink(policy.g, sub, rule[1], dom)
       /\ dom = rule[2] /\ obj = rule[3] /\ act = rule[4]

\* the names a grouping rule gives a role to
RoleNames(g) == {rule[2] : rule \in g}

\* the roles the loaded grouping rules make the user a member of in the
\* domain
MemberRoles(rows, t, u) ==
    LET g == LoadedPolicy({x \in rows : x.tenant = t}).g IN
    {r \in RoleNames(g) :
        r # UserSubject(u) /\ HasLink(g, UserSubject(u), r, t)}

EnfIdle(p) == enfCalls[p].pc \in {"idle", "done"}

\* rbac.Service.Enforce(tenantID, subject, "doc", "read"), entry
EnfStart(p, t, sub) ==
    /\ EnfIdle(p)
    /\ enfCalls' = [enfCalls EXCEPT ![p] =
                      [NoCall EXCEPT !.pc = "find", !.tenant = t, !.sub = sub]]
    /\ UNCHANGED <<now, rbacTuples, enforcer, domVars, httpLog, keyVars,
                   logVars, adminVars, sessVars, codeVars, tokVars, pc, loc,
                   res, calls, issued>>

\* loadPolicies: Where(tenant_id = ?).Find(&tuples)
EnfFind(p) ==
    /\ enfCalls[p].pc = "find"
    /\ LET rows == {x \in rbacTuples : x.tenant = enfCalls[p].tenant} IN
       enfCalls' = [enfCalls EXCEPT
                      ![p].pc = "clear", ![p].rows = rows,
                      ![p].expected =
                          CasbinEnforce(LoadedPolicy(rows), enfCalls[p].sub,
                                        enfCalls[p].tenant, "doc", "read")]
    /\ UNCHANGED <<now, rbacTuples, enforcer, domVars, httpLog, keyVars,
                   logVars, adminVars, sessVars, codeVars, tokVars, pc, loc,
                   res, calls, issued>>

\* loadPolicies: s.enforcer.ClearPolicy()
EnfClear(p) ==
    /\ enfCalls[p].pc = "clear"
    /\ enforcer' = NoPolicy
    /\ enfCalls' = [enfCalls EXCEPT
                      ![p].pc = IF enfCalls[p].rows = {} THEN "eval"
                                ELSE "add"]
    /\ UNCHANGED <<now, rbacTuples, domVars, httpLog, keyVars,
                   logVars, adminVars, sessVars, codeVars, tokVars, pc, loc,
                   res, calls, issued>>

\* loadPolicies: one round of the loop over the rows read
EnfAdd(p) ==
    /\ enfCalls[p].pc = "add"
    /\ \E r \in enfCalls[p].rows :
          /\ enforcer' = AddRow(enforcer, r)
          /\ enfCalls' = [enfCalls EXCEPT
                            ![p].rows = @ \ {r},
                            ![p].pc = IF enfCalls[p].rows = {r} THEN "eval"
                                      ELSE "add"]
    /\ UNCHANGED <<now, rbacTuples, domVars, httpLog, keyVars,
                   logVars, adminVars, sessVars, codeVars, tokVars, pc, loc,
                   res, calls, issued>>

\* Enforce: s.enforcer.Enforce(subject, tenantID, object, action)
EnfEval(p) ==
    /\ enfCalls[p].pc = "eval"
    /\ enfCalls' = [enfCalls EXCEPT
                      ![p].pc = "done",
                      ![p].allowed =
                          CasbinEnforce(enforcer, enfCalls[p].sub,
                                        enfCalls[p].tenant, "doc", "read")]
    /\ UNCHANGED <<now, rbacTuples, enforcer, domVars, httpLog, keyVars,
                   logVars, adminVars, sessVars, codeVars, tokVars, pc, loc,
                   res, calls, issued>>

\* ----------------------------------------------------------------- SpecRoles
\* role bindings change while codes are exchanged
NextRoles ==
    \/ \E t \in Tenants, policy \in TupleInputs : AddPolicy(t, policy)
    \/ \E t \in Tenants, policy \in TupleInputs : RemovePolicy(t, policy)
    \/ Authorize("tA", "web", "u1", "cb", HashString("v1"), "S256", "openid",
                 "code")
    \/ \E code \in 1..(nextCode - 1) : ExchStart("p1", "tA", code, "v1", "cb")
    \/ GacSelect("p1")
    \/ GacUpdate("p1")
    \/ ExchIssue("p1")

SpecRoles == Init /\ [][NextRoles]_vars

\* C37: for every successful authorization_code exchange the roles claim of
\* the issued access token equals the roles RolesForUser returns for the
\* user at the time of the exchange.
C37_RolesClaimIsCurrentRoles ==
    \A e \in exchLog : e.roles = e.userRoles

\* --------------------------------------------------------------- SpecEnforce
\* two Enforce calls, one per tenant, on the one enforcer, while the table
\* changes
NextEnforce ==
    \/ \E t \in Tenants, policy \in TupleInputs : AddPolicy(t, policy)
    \/ \E t \in Tenants, policy \in TupleInputs : RemovePolicy(t, policy)
    \/ EnfStart("p1", "tA", UserSubject("u1"))
    \/ EnfStart("p2", "tB", UserSubject("u1"))
    \/ \E p \in Procs : EnfFind(p)
    \/ \E p \in Procs : EnfClear(p)
    \/ \E p \in Procs : EnfAdd(p)
    \/ \E p \in Procs : EnfEval(p)

SpecEnforce == Init /\ [][NextEnforce]_vars

\* C38: RolesForUser agrees with Enforce: for every tenant and user it
\* returns exactly the roles of which the grouping rules loaded by Enforce
\* make the user a member in the tenant's domain.
C38_RolesForUserAgreesWithEnforce ==
    \A t \in Tenants, u \in Users :
       RolesForUser(rbacTuples, t, u) = MemberRoles(rbacTuples, t, u)

\* C39: under any interleaving of Enforce calls for different tenants, a call
\* returns the decision determined by the rows of its own tenant.
C39_DecisionFromOwnTenant ==
    \A p \in Procs :
       enfCalls[p].pc = "done" => enfCalls[p].allowed = enfCalls[p].expected

\* ---------------------------------------------- claims: slug label boundary

\* the normalized host is one or more labels, the leftmost not empty, a dot
\* and base_domain
UnderBaseDomain(host) ==
    /\ HasSuffix(host, <<".">> \o normalizeHost(BaseDomain))
    /\ FirstPart(host) # <<>>

\* C40: slug resolution respects label boundaries: a host is resolved by slug
\* only if its normalized form is labels, a dot and base_domain, and then to
\* the tenant whose slug is the leftmost label; a host that only ends with
\* the characters of base_domain, or is base_domain, fails with not-found.
C40_SlugRespectsLabelBoundary ==
    \A e \in resolveLog :
       LET host == normalizeHost(HostString(reqHost)) IN
       e.found = {} =>
          /\ e.out.err = "" =>
                /\ UnderBaseDomain(host)
                /\ GetBySlug(FirstPart(host)) = e.out
          /\ ~UnderBaseDomain(host) => e.out \in NotFound

====
